---- MODULE Spec2Model ----
(***************************************************************************)
(* A model of segmentio/go-hll: the tiered HyperLogLog counter (empty ->   *)
(* explicit -> sparse -> dense), its insertion arithmetic, the nine-way    *)
(* union, and the storage-spec v1 serialization.                           *)
(*                                                                         *)
(* A uint64 is modelled as the set of its set bit positions (bit 0 is the  *)
(* least significant bit), so that the shifts, masks and comparisons of    *)
(* the code are computed bit for bit at their full 64-bit width.  A byte   *)
(* is an integer in 0..255.                                                *)
(***************************************************************************)
EXTENDS Integers, Sequences, FiniteSets, TLC

VARIABLES hll, heap, last, hist, pkg, gor

vars == <<hll, heap, last, hist, pkg, gor>>

(***************************************************************************)
(* uint64 arithmetic                                                       *)
(***************************************************************************)
Bits64 == 0 .. 63

SetMax(S) == CHOOSE x \in S : \A y \in S : y <= x

SetMin(S) == CHOOSE x \in S : \A y \in S : x <= y

\* uint64(n) for an int 0 <= n < 2^31
U64(n) == {i \in 0 .. 30 : (n \div (2 ^ i)) % 2 = 1}

\* int(w) for a word below 2^31
RECURSIVE IntOf(_)
IntOf(w) == IF w = {} THEN 0 ELSE LET b == SetMax(w) IN (2 ^ b) + IntOf(w \ {b})

\* byte(w): the low eight bits
ByteOf(w) == IntOf(w \cap (0 .. 7))

And64(a, b) == a \cap b

Or64(a, b) == a \cup b

Not64(a) == Bits64 \ a

\* a << k and a >> k; Go shifts a uint64 by 64 or more to zero
Shl64(a, k) == {b + k : b \in a} \cap Bits64

Shr64(a, k) == {b - k : b \in a} \cap Bits64

\* a - 1 with wrap-around
Dec64(a) == IF a = {} THEN Bits64 ELSE LET l == SetMin(a) IN (a \ {l}) \cup (0 .. (l - 1))

\* unsigned a < b
Ult64(a, b) == a # b /\ SetMax((a \ b) \cup (b \ a)) \in b

\* int64(a) < int64(b)
Slt64(a, b) == IF (63 \in a) # (63 \in b) THEN 63 \in a ELSE Ult64(a, b)

\* bits.TrailingZeros64
TrailingZeros64(a) == IF a = {} THEN 64 ELSE SetMin(a)

\* bits.Len32(uint32(n)) for an int 0 <= n < 2^31
Len32(n) == IF n = 0 THEN 0 ELSE SetMax(U64(n)) + 1

\* bitwise and / or of two bytes
AndByte(a, b) == IntOf(U64(a) \cap U64(b))

OrByte(a, b) == IntOf(U64(a) \cup U64(b))

divideBy8RoundUp(i) == (i \div 8) + (IF i % 8 > 0 THEN 1 ELSE 0)

(***************************************************************************)
(* Settings                                                                *)
(***************************************************************************)
minimumLog2mParam == 4

maximumLog2mParam == 31

minimumRegwidthParam == 1

maximumRegwidthParam == 8

minimumExpthreshParam == -1

maximumExpthreshParam == 18

maximumExplicitThreshold == 2 ^ (maximumExpthreshParam - 1)

AutoExplicitThreshold == -1

validate(s) ==
    IF s.Log2m < minimumLog2mParam THEN "Log2m is too small"
    ELSE IF s.Log2m > maximumLog2mParam THEN "Log2m is too large"
    ELSE IF s.Regwidth < minimumRegwidthParam THEN "Regwidth is too small"
    ELSE IF s.Regwidth > maximumRegwidthParam THEN "Regwidth is too large"
    ELSE IF s.ExplicitThreshold < minimumExpthreshParam THEN "ExplicitThreshold is too small"
    ELSE IF s.ExplicitThreshold > maximumExplicitThreshold THEN "ExplicitThreshold is too large"
    ELSE "nil"

\* Go computes in 64-bit ints; for log2m >= 6 the byte size regwidth * m / 8 is
\* a multiple of 8 and numLongs is regwidth * 2^(log2m - 6), which is written so
\* here to stay within the model checker's 32-bit integers
calculateExplicitThreshold(log2m, regwidth) ==
    LET numLongs == IF log2m >= 6 THEN regwidth * (2 ^ (log2m - 6))
                    ELSE divideBy8RoundUp(regwidth * (2 ^ log2m)) \div 8
    IN  IF numLongs > maximumExplicitThreshold THEN maximumExplicitThreshold ELSE numLongs

\* 1 << uint(math.Log2(float64(m*regwidth) / float64(shortWordLength))): the
\* largest power of two 2^e with 2^e * shortWordLength <= m * regwidth (the
\* quotient is always above 1 and below m); the comparison is scaled by
\* powers of two to stay within 32-bit integers
calculateSparseThreshold(log2m, regwidth) ==
    LET shortWordLength == log2m + regwidth
        AtMost(e) == IF log2m - e >= 6 THEN TRUE
                     ELSE IF e <= log2m THEN shortWordLength <= (2 ^ (log2m - e)) * regwidth
                     ELSE (2 ^ (e - log2m)) * shortWordLength <= regwidth
    IN  2 ^ SetMax({e \in 0 .. 30 : AtMost(e)})

\* a mask that is one bit short
pwMaxMaskShort(regwidth) == Not64(Dec64(Shl64({0}, (2 ^ regwidth) - 1)))

pwMaxMask(regwidth) ==
    LET maxRegisterValue == (2 ^ regwidth) - 1
    IN  Not64(Dec64(Shl64({0}, maxRegisterValue - 1)))

toInternal(s) ==
    LET explicitAuto == s.ExplicitThreshold = AutoExplicitThreshold
    IN  [log2m |-> s.Log2m,
         regwidth |-> s.Regwidth,
         explicitAuto |-> explicitAuto,
         explicitThreshold |->
             IF explicitAuto THEN calculateExplicitThreshold(s.Log2m, s.Regwidth)
             ELSE s.ExplicitThreshold,
         sparseEnabled |-> s.SparseEnabled,
         sparseThreshold |->
             IF s.SparseEnabled THEN calculateSparseThreshold(s.Log2m, s.Regwidth) ELSE 0,
         pwMaxMask |-> pwMaxMask(s.Regwidth),
         mBitsMask |-> Dec64(Shl64({0}, s.Log2m))]

toExternal(st) ==
    [Log2m |-> st.log2m,
     Regwidth |-> st.regwidth,
     SparseEnabled |-> st.sparseEnabled,
     ExplicitThreshold |->
         IF st.explicitAuto THEN AutoExplicitThreshold ELSE st.explicitThreshold]

(***************************************************************************)
(* The package-level state.  A *settings pointer is the pair of the        *)
(* Settings the object was derived from and the goroutine that allocated   *)
(* it (0 is the caller of the counters); two pointers are equal when they  *)
(* are the same object.  settingsCache is the set of the pointers the map  *)
(* holds, one per key at most.                                             *)
(***************************************************************************)
NilPointer == <<>>

\* settingsCache[s]
settingsCacheGet(cache, s) ==
    IF \E p \in cache : p[1] = s THEN CHOOSE p \in cache : p[1] = s ELSE NilPointer

\* settingsCache[p's Settings] = p
settingsCachePut(cache, p) == {q \in cache : q[1] # p[1]} \cup {p}

\* what a look-up that found p, or a derivation by goroutine g, leaves: [err, s, cache]
toInternalFound(cache, s, g, p) ==
    IF p # NilPointer THEN [err |-> "nil", s |-> p, cache |-> cache]
    ELSE [err |-> "nil", s |-> <<s, g>>, cache |-> settingsCachePut(cache, <<s, g>>)]

\* Settings.toInternal run by goroutine g with no other goroutine between
\* its two critical sections: [err, s, cache]
toInternalCached(cache, s, g) ==
    IF validate(s) # "nil" THEN [err |-> validate(s), s |-> NilPointer, cache |-> cache]
    ELSE toInternalFound(cache, s, g, settingsCacheGet(cache, s))

\* the package variables before any call
PkgInit == [settingsCache |-> {}, defaultSettings |-> NilPointer]

\* a Defaults that installs whatever it is given
installAlways(p, s) == [err |-> "nil", pkg |-> [p EXCEPT !.defaultSettings = s]]

\* the locked part of Defaults, for the pointer s that toInternal returned: [err, pkg]
install(p, s) ==
    IF p.defaultSettings # NilPointer /\ s # p.defaultSettings
    THEN [err |-> "different default settings have already been installed", pkg |-> p]
    ELSE [err |-> "nil", pkg |-> [p EXCEPT !.defaultSettings = s]]

\* Defaults after a toInternal that ended as r: [err, pkg]
DefaultsAfter(p, r) ==
    IF r.err # "nil" THEN [err |-> r.err, pkg |-> p]
    ELSE install([p EXCEPT !.settingsCache = r.cache], r.s)

\* Defaults(settings) run by goroutine g with no other goroutine in between: [err, pkg]
Defaults(p, settings, g) == DefaultsAfter(p, toInternalCached(p.settingsCache, settings, g))

\* getDefaults
getDefaults(p) == p.defaultSettings

\* the zero value Settings{}
ZeroSettings == [Log2m |-> 0, Regwidth |-> 0, ExplicitThreshold |-> 0, SparseEnabled |-> FALSE]

(***************************************************************************)
(* Storage.  A storage value is a record: type is "nil" (no storage),      *)
(* "explicit" (set: the raw values), "sparse" (map: register -> value) or  *)
(* "dense" (words: the uint64 backing slice, index 0 first).  obj tells    *)
(* which Go object the value is during an operation: "this" is the object  *)
(* the receiver held when the operation began, "other" is the object held  *)
(* by the other operand, "new" is an object allocated by the operation.    *)
(* Maps and slices are references in Go, so writing to an "other" object   *)
(* is a write the other counter sees.                                      *)
(***************************************************************************)
NilStorage == [type |-> "nil", obj |-> "this", set |-> {}, map |-> <<>>, words |-> <<>>]

\* make(explicitStorage)
makeExplicit == [type |-> "explicit", obj |-> "new", set |-> {}, map |-> <<>>, words |-> <<>>]

\* make(sparseStorage)
makeSparse == [type |-> "sparse", obj |-> "new", set |-> {}, map |-> <<>>, words |-> <<>>]

newDenseStorage(st) ==
    LET bytes == divideBy8RoundUp((2 ^ st.log2m) * st.regwidth)
    IN  [type |-> "dense", obj |-> "new", set |-> {}, map |-> <<>>,
         words |-> [i \in 1 .. divideBy8RoundUp(bytes) |-> {}]]

\* a copy that returns the storage it was given: the map or slice header is
\* copied, the elements are shared
copyShallow(s) == s

\* explicitStorage.copy, sparseStorage.copy, denseStorage.copy: a deep copy
copy(s) == [s EXCEPT !.obj = "new"]

\* a result of a storage operation: the storage, or a run-time panic
Ok(s) == [panic |-> FALSE, s |-> s]

Panic(s) == [panic |-> TRUE, s |-> s]

(***************************************************************************)
(* Dense storage                                                           *)
(***************************************************************************)
InRange(words, idx) == idx >= 0 /\ idx < Len(words)

calcPosition(regnum, regwidth) ==
    LET addr == regnum * regwidth
    IN  [idx |-> addr \div 64, pos |-> addr % 64]

\* a get that reads the word of the first bit of the register only
denseGetUpper(words, regnum, regwidth) ==
    LET p == calcPosition(regnum, regwidth)
    IN  IF ~InRange(words, p.idx) THEN [panic |-> TRUE, v |-> 0]
        ELSE IF p.pos + regwidth <= 64
        THEN [panic |-> FALSE,
              v |-> ByteOf(Shr64(words[p.idx + 1], 64 - (p.pos + regwidth))
                              \cap (0 .. (regwidth - 1)))]
        ELSE [panic |-> FALSE,
              v |-> ByteOf(Shl64(words[p.idx + 1] \cap (0 .. (63 - p.pos)),
                                 regwidth - (64 - p.pos)))]

\* denseStorage.get: [panic, v]
denseGet(words, regnum, regwidth) ==
    LET p == calcPosition(regnum, regwidth)
        idx == p.idx
        pos == p.pos
    IN  IF pos + regwidth <= 64
        THEN IF ~InRange(words, idx) THEN [panic |-> TRUE, v |-> 0]
             ELSE LET shiftLeft == IF pos + regwidth < 64 THEN 64 - (pos + regwidth) ELSE 0
                      mask == Shl64(Dec64(Shl64({0}, regwidth)), shiftLeft)
                  IN  [panic |-> FALSE,
                       v |-> ByteOf(Shr64(And64(mask, words[idx + 1]), shiftLeft))]
        ELSE IF ~InRange(words, idx) \/ ~InRange(words, idx + 1)
             THEN [panic |-> TRUE, v |-> 0]
             ELSE LET nBitsUpper == 64 - pos
                      nBitsLower == regwidth - nBitsUpper
                      maskUpper == Dec64(Shl64({0}, nBitsUpper))
                      upper == Shl64(And64(words[idx + 1], maskUpper), nBitsLower)
                      lower == Shr64(words[idx + 2], 64 - nBitsLower)
                  IN  [panic |-> FALSE, v |-> ByteOf(Or64(upper, lower))]

\* denseStorage.setIfGreater on the storage s (written in place)
denseSetIfGreater(s, st, regnum, value) ==
    LET p == calcPosition(regnum, st.regwidth)
        idx == p.idx
        pos == p.pos
        nBits == st.regwidth
        w == s.words
    IN  IF pos + nBits <= 64
        THEN IF ~InRange(w, idx) THEN Panic(s)
             ELSE LET mask0 == Dec64(Shl64({0}, st.regwidth))
                      part0 == And64(U64(value), mask0)
                      shiftLeft == IF pos + nBits < 64 THEN 64 - (pos + nBits) ELSE 0
                      partToWrite == Shl64(part0, shiftLeft)
                      mask == Shl64(mask0, shiftLeft)
                      currVal == ByteOf(Shr64(And64(mask, w[idx + 1]), shiftLeft))
                  IN  IF value > currVal
                      THEN Ok([s EXCEPT !.words[idx + 1] =
                                  Or64(And64(Not64(mask), w[idx + 1]), partToWrite)])
                      ELSE Ok(s)
        ELSE IF ~InRange(w, idx) \/ ~InRange(w, idx + 1) THEN Panic(s)
             ELSE LET nBitsUpper == 64 - pos
                      nBitsLower == nBits - nBitsUpper
                      maskUpper == Dec64(Shl64({0}, nBitsUpper))
                      maskLower == Dec64(Shl64({0}, nBitsLower))
                      upper == Shl64(And64(w[idx + 1], maskUpper), nBitsLower)
                      lower == Shr64(w[idx + 2], 64 - nBitsLower)
                      currVal == Or64(upper, lower)
                  IN  IF value >= ByteOf(currVal)
                      THEN LET partToWriteUpper == And64(Shr64(U64(value), nBitsLower), maskUpper)
                               partToWriteLower ==
                                   Shl64(And64(U64(value), maskLower), 64 - nBitsLower)
                               maskLowerShifted == Shl64(maskLower, 64 - nBitsLower)
                           IN  Ok([s EXCEPT
                                   !.words[idx + 1] =
                                       Or64(And64(Not64(maskUpper), w[idx + 1]), partToWriteUpper),
                                   !.words[idx + 2] =
                                       Or64(And64(Not64(maskLowerShifted), w[idx + 2]),
                                            partToWriteLower)])
                      ELSE Ok(s)

\* one iteration of the loop of denseStorage.union; c is the loop's state:
\* [panic, words, idx, pos, thisWord, otherWord, computed, mask]
denseUnionStep(c, st, other) ==
    LET bitsAvailable == 64 - c.pos
        rw == st.regwidth
        thisValue == And64(c.thisWord, c.mask)
        otherValue == And64(c.otherWord, c.mask)
    IN  IF bitsAvailable >= rw
        THEN [c EXCEPT
                 !.computed = IF Ult64(thisValue, otherValue)
                              THEN Or64(And64(Not64(c.mask), c.computed), otherValue)
                              ELSE c.computed,
                 !.pos = c.pos + rw,
                 !.mask = Shr64(c.mask, rw)]
        ELSE LET otherIsGreater == bitsAvailable > 0 /\ Ult64(thisValue, otherValue)
                 thisIsGreater == bitsAvailable > 0 /\ Ult64(otherValue, thisValue)
                 computed1 == IF otherIsGreater
                              THEN Or64(And64(Not64(c.mask), c.computed), otherValue)
                              ELSE c.computed
                 words1 == IF computed1 # c.thisWord
                           THEN [c.words EXCEPT ![c.idx + 1] = computed1]
                           ELSE c.words
                 idx1 == c.idx + 1
             IN  IF ~InRange(words1, idx1) \/ ~InRange(other, idx1)
                 THEN [c EXCEPT !.panic = TRUE, !.words = words1]
                 ELSE LET thisWord == words1[idx1 + 1]
                          otherWord == other[idx1 + 1]
                          nLowerBits == rw - bitsAvailable
                          lowerMask == Shl64(Dec64(Shl64({0}, nLowerBits)), 64 - nLowerBits)
                          thisLowerBits == And64(thisWord, lowerMask)
                          otherLowerBits == And64(otherWord, lowerMask)
                          computed2 ==
                              IF ~thisIsGreater
                                 /\ ((otherIsGreater /\ thisLowerBits # otherLowerBits)
                                     \/ Ult64(thisLowerBits, otherLowerBits))
                              THEN Or64(And64(Not64(lowerMask), thisWord), otherLowerBits)
                              ELSE thisWord
                      IN  [panic |-> FALSE, words |-> words1, idx |-> idx1,
                           pos |-> nLowerBits, thisWord |-> thisWord,
                           otherWord |-> otherWord, computed |-> computed2,
                           mask |-> Shr64(Shl64(st.mBitsMask, 64 - rw), nLowerBits)]

RECURSIVE denseUnionLoop(_, _, _, _, _)
denseUnionLoop(c, st, other, i, numReg) ==
    IF i >= numReg \/ c.panic THEN c
    ELSE denseUnionLoop(denseUnionStep(c, st, other), st, other, i + 1, numReg)

\* denseStorage.union: s (written in place) becomes the union with the words
\* of other, in one pass over the two backing slices
denseStorageUnion(s, st, other) ==
    IF ~InRange(s.words, 0) \/ ~InRange(other, 0) THEN Panic(s)
    ELSE LET c0 == [panic |-> FALSE, words |-> s.words, idx |-> 0, pos |-> 0,
                    thisWord |-> s.words[1], otherWord |-> other[1],
                    computed |-> s.words[1],
                    mask |-> Shl64(st.mBitsMask, 64 - st.regwidth)]
             c == denseUnionLoop(c0, st, other, 0, 2 ^ st.log2m)
         IN  IF c.panic THEN Panic([s EXCEPT !.words = c.words])
             ELSE IF c.computed # c.thisWord
                  THEN Ok([s EXCEPT !.words = [c.words EXCEPT ![c.idx + 1] = c.computed]])
                  ELSE Ok([s EXCEPT !.words = c.words])

\* the registers of a dense storage as get reads them (out of range reads as -1)
denseRegisters(words, st) ==
    [i \in 0 .. ((2 ^ st.log2m) - 1) |->
        LET g == denseGet(words, i, st.regwidth) IN IF g.panic THEN -1 ELSE g.v]

\* binary.BigEndian.PutUint64
PutUint64(w) == [k \in 1 .. 8 |-> ByteOf(Shr64(w, 64 - (8 * k)))]

\* binary.BigEndian.Uint64 of the eight bytes of b from (0-based) offset
Uint64At(b, offset) ==
    UNION {Shl64(U64(b[offset + k]), 64 - (8 * k)) : k \in 1 .. 8}

denseSizeInBytes(st) == divideBy8RoundUp((2 ^ st.log2m) * st.regwidth)

\* denseStorage.writeBytes into a slice of capacity n: [panic, bytes]
denseWriteBytes(words, n) ==
    LET nWords == n \div 8
        remainder == n % 8
    IN  IF (nWords > Len(words)) \/ (remainder > 0 /\ ~InRange(words, nWords))
        THEN [panic |-> TRUE, bytes |-> <<>>]
        ELSE [panic |-> FALSE,
              bytes |-> [j \in 1 .. n |->
                  LET i == (j - 1) \div 8
                      k == ((j - 1) % 8) + 1
                  IN  ByteOf(Shr64(words[i + 1], 64 - (8 * k)))]]

\* denseStorage.fromBytes on a storage made by newDenseStorage: [err, s]
denseFromBytes(s, st, bytes) ==
    IF Len(bytes) # divideBy8RoundUp((2 ^ st.log2m) * st.regwidth)
    THEN [err |-> "ErrInsufficientBytes", s |-> s]
    ELSE LET n == Len(bytes)
             nWords == n \div 8
             remainder == n % 8
             lastValue == UNION {Shl64(U64(bytes[n - (remainder - i) + 1]), 64 - (8 * (i + 1)))
                                 : i \in 0 .. (remainder - 1)}
         IN  [err |-> "nil",
              s |-> [s EXCEPT !.words =
                  [i \in 1 .. Len(s.words) |->
                      IF remainder > 0 /\ i = Len(s.words) THEN lastValue
                      ELSE IF i <= nWords THEN Uint64At(bytes, 8 * (i - 1))
                      ELSE s.words[i]]]]

(***************************************************************************)
(* Bit I/O over a byte slice: bit address 0 is the most significant bit of *)
(* byte 0.                                                                 *)
(***************************************************************************)
\* the loop of readBits; c is [panic, value, idx, pos, bitsRequired]
RECURSIVE readBitsLoop(_, _)
readBitsLoop(bytes, c) ==
    IF c.bitsRequired <= 0 \/ c.panic THEN c
    ELSE LET bitsAvailable == IF 8 - c.pos > c.bitsRequired THEN c.bitsRequired ELSE 8 - c.pos
             mask == (((((2 ^ bitsAvailable) % 256) - 1) % 256)
                        * (2 ^ (8 - c.pos - bitsAvailable))) % 256
         IN  IF ~(c.idx >= 0 /\ c.idx < Len(bytes)) THEN [c EXCEPT !.panic = TRUE]
             ELSE LET bits0 == AndByte(bytes[c.idx + 1], mask)
                      bits == IF c.pos + bitsAvailable # 8
                              THEN bits0 \div (2 ^ (8 - (c.pos + bitsAvailable)))
                              ELSE bits0
                      pos1 == c.pos + bitsAvailable
                  IN  readBitsLoop(bytes,
                          [panic |-> FALSE,
                           value |-> Or64(Shl64(c.value, bitsAvailable), U64(bits)),
                           idx |-> IF pos1 = 8 THEN c.idx + 1 ELSE c.idx,
                           pos |-> IF pos1 = 8 THEN 0 ELSE pos1,
                           bitsRequired |-> c.bitsRequired - bitsAvailable])

\* a readBits that starts at the first bit of the byte of addr
readBitsAligned(bytes, addr, nBits) ==
    readBitsLoop(bytes, [panic |-> FALSE, value |-> {}, idx |-> addr \div 8,
                         pos |-> 0, bitsRequired |-> nBits])

\* readBits: [panic, value]
readBits(bytes, addr, nBits) ==
    readBitsLoop(bytes, [panic |-> FALSE, value |-> {}, idx |-> addr \div 8,
                         pos |-> addr % 8, bitsRequired |-> nBits])

\* the loop of writeBits; c is [panic, bytes, idx, pos, nBits]
RECURSIVE writeBitsLoop(_, _)
writeBitsLoop(value, c) ==
    IF c.nBits <= 0 \/ c.panic THEN c
    ELSE LET bitsToWrite == IF 8 - c.pos > c.nBits THEN c.nBits ELSE 8 - c.pos
             mask == (((2 ^ bitsToWrite) % 256) - 1) % 256
             part0 == AndByte(mask, ByteOf(Shr64(value, c.nBits - bitsToWrite)))
             partToWrite == IF c.pos + bitsToWrite # 8
                            THEN (part0 * (2 ^ (8 - (c.pos + bitsToWrite)))) % 256
                            ELSE part0
             pos1 == c.pos + bitsToWrite
         IN  IF ~(c.idx >= 0 /\ c.idx < Len(c.bytes)) THEN [c EXCEPT !.panic = TRUE]
             ELSE writeBitsLoop(value,
                      [panic |-> FALSE,
                       bytes |-> [c.bytes EXCEPT ![c.idx + 1] = OrByte(@, partToWrite)],
                       idx |-> IF pos1 = 8 THEN c.idx + 1 ELSE c.idx,
                       pos |-> IF pos1 = 8 THEN 0 ELSE pos1,
                       nBits |-> c.nBits - bitsToWrite])

\* writeBits: [panic, bytes]
writeBits(bytes, addr, value, nBits) ==
    writeBitsLoop(value, [panic |-> FALSE, bytes |-> bytes, idx |-> addr \div 8,
                          pos |-> addr % 8, nBits |-> nBits])

(***************************************************************************)
(* Sparse storage: map is a function from the stored register numbers to   *)
(* their values.                                                           *)
(***************************************************************************)
sparseGet(map, regnum) == IF regnum \in DOMAIN map THEN map[regnum] ELSE 0

MapPut(map, k, v) == [x \in (DOMAIN map) \cup {k} |-> IF x = k THEN v ELSE map[x]]

sparseSetIfGreater(s, st, regnum, value) ==
    IF value > sparseGet(s.map, regnum)
    THEN [s EXCEPT !.map = MapPut(s.map, regnum, value)]
    ELSE s

sparseSizeInBytes(s, st) == divideBy8RoundUp((st.log2m + st.regwidth) * Cardinality(DOMAIN s.map))

\* the keys of a sparse map in ascending order
RECURSIVE SortedKeys(_)
SortedKeys(K) == IF K = {} THEN <<>> ELSE LET k == SetMin(K) IN <<k>> \o SortedKeys(K \ {k})

RECURSIVE sparseWriteLoop(_, _, _, _, _)
sparseWriteLoop(map, st, regs, i, c) ==
    IF i > Len(regs) \/ c.panic THEN c
    ELSE LET reg == regs[i]
             bitsPerRegister == st.log2m + st.regwidth
             w == writeBits(c.bytes, (i - 1) * bitsPerRegister,
                            Or64(Shl64(U64(reg), st.regwidth), U64(map[reg])),
                            bitsPerRegister)
         IN  sparseWriteLoop(map, st, regs, i + 1, [panic |-> w.panic, bytes |-> w.bytes])

\* sparseStorage.writeBytes into a zeroed slice of n bytes: [panic, bytes]
sparseWriteBytes(s, st, n) ==
    sparseWriteLoop(s.map, st, SortedKeys(DOMAIN s.map), 1,
                    [panic |-> FALSE, bytes |-> [j \in 1 .. n |-> 0]])

RECURSIVE sparseReadLoop(_, _, _, _, _)
sparseReadLoop(map, st, bytes, i, numRegisters) ==
    IF i >= numRegisters THEN map
    ELSE LET bitsPerRegister == st.regwidth + st.log2m
             regMask == ((2 ^ st.regwidth) - 1) % 256
             regAndVal == readBits(bytes, i * bitsPerRegister, bitsPerRegister).value
         IN  sparseReadLoop(MapPut(map, IntOf(Shr64(regAndVal, st.regwidth)),
                                   AndByte(ByteOf(regAndVal), regMask)),
                            st, bytes, i + 1, numRegisters)

\* sparseStorage.fromBytes on a storage made by make(sparseStorage)
sparseFromBytes(s, st, bytes) ==
    LET bitsPerRegister == st.regwidth + st.log2m
        numRegisters == (8 * Len(bytes)) \div bitsPerRegister
    IN  [s EXCEPT !.map = sparseReadLoop(s.map, st, bytes, 0, numRegisters)]

(***************************************************************************)
(* Explicit storage: set is the set of raw values.                         *)
(***************************************************************************)
explicitSizeInBytes(s) == 8 * Cardinality(s.set)

\* the values sorted as uint64, ascending
RECURSIVE SortedUnsigned(_)
SortedUnsigned(S) ==
    IF S = {} THEN <<>>
    ELSE LET v == CHOOSE x \in S : \A y \in S : y = x \/ Ult64(x, y)
         IN  <<v>> \o SortedUnsigned(S \ {v})

\* the values sorted as int64, ascending
RECURSIVE SortedSigned(_)
SortedSigned(S) ==
    IF S = {} THEN <<>>
    ELSE LET v == CHOOSE x \in S : \A y \in S : y = x \/ Slt64(x, y)
         IN  <<v>> \o SortedSigned(S \ {v})

\* explicitStorage.writeBytes
explicitWriteBytes(s) ==
    LET sortedValues == SortedSigned(s.set)
    IN  [j \in 1 .. (8 * Len(sortedValues)) |->
            PutUint64(sortedValues[((j - 1) \div 8) + 1])[((j - 1) % 8) + 1]]

\* a reader that takes the whole words and drops the rest
explicitFromBytesWhole(s, bytes) ==
    [err |-> "nil",
     s |-> [s EXCEPT !.set = @ \cup {Uint64At(bytes, 8 * i)
                                      : i \in 0 .. ((Len(bytes) \div 8) - 1)}]]

\* explicitStorage.fromBytes on a storage made by make(explicitStorage): [err, s]
explicitFromBytes(s, bytes) ==
    IF Len(bytes) % 8 # 0 THEN [err |-> "ErrInsufficientBytes", s |-> s]
    ELSE [err |-> "nil",
          s |-> [s EXCEPT !.set = @ \cup {Uint64At(bytes, 8 * i)
                                           : i \in 0 .. ((Len(bytes) \div 8) - 1)}]]

(***************************************************************************)
(* Hll: a counter value is [settings, storage]; settings is the internal   *)
(* settings record the counter points to (NilSettings for the zero value). *)
(* An operation yields [panic, h]: the counter afterwards, or the state at *)
(* the point where the Go runtime panicked (index out of range).           *)
(* Go iterates a map in an unspecified order; the loops below visit the    *)
(* entries in one fixed order.                                             *)
(***************************************************************************)
NilSettings == [nil |-> TRUE]

ZeroHll == [settings |-> NilSettings, storage |-> NilStorage]

\* a capacity that is exceeded when it is reached
overCapacityAtLimit(s, st) ==
    CASE s.type = "explicit" -> Cardinality(s.set) >= st.explicitThreshold
      [] s.type = "sparse" -> Cardinality(DOMAIN s.map) >= st.sparseThreshold
      [] OTHER -> FALSE

overCapacity(s, st) ==
    CASE s.type = "explicit" -> Cardinality(s.set) > st.explicitThreshold
      [] s.type = "sparse" -> Cardinality(DOMAIN s.map) > st.sparseThreshold
      [] OTHER -> FALSE

\* a register that adds up what it is given
setSum(s, st, regnum, value) ==
    IF s.type = "sparse"
    THEN Ok(sparseSetIfGreater(s, st, regnum, value + sparseGet(s.map, regnum)))
    ELSE denseSetIfGreater(s, st, regnum,
                           value + (IF denseGet(s.words, regnum, st.regwidth).panic THEN 0
                                    ELSE denseGet(s.words, regnum, st.regwidth).v))

\* registers.setIfGreater on a sparse or dense storage: [panic, s]
setIfGreater(s, st, regnum, value) ==
    IF s.type = "sparse" THEN Ok(sparseSetIfGreater(s, st, regnum, value))
    ELSE denseSetIfGreater(s, st, regnum, value)

\* for k, v := range sparse { dense.setIfGreater(settings, int(k), v) }
RECURSIVE setAllIfGreater(_, _, _, _)
setAllIfGreater(r, st, map, keys) ==
    IF keys = <<>> \/ r.panic THEN r
    ELSE setAllIfGreater(setIfGreater(r.s, st, Head(keys), map[Head(keys)]),
                         st, map, Tail(keys))

\* a promotion that starts from empty registers
sparseToDenseEmpty(st, sparse) == Ok(newDenseStorage(st))

sparseToDense(st, sparse) ==
    setAllIfGreater(Ok(newDenseStorage(st)), st, sparse.map, SortedKeys(DOMAIN sparse.map))

RECURSIVE AddRaw(_, _)
RECURSIVE addValue(_, _)
RECURSIVE upgrade(_)
RECURSIVE addFromExplicit(_, _)
RECURSIVE addRest(_, _)

\* an AddRaw that does not ignore zero
AddRawAny(h, value) == addValue(h, value)

\* an AddRaw that takes the value as an int64 without its sign
AddRawUnsigned(h, value) == IF value \ {63} = {} THEN [panic |-> FALSE, h |-> h]
                            ELSE addValue(h, value \ {63})

AddRaw(h, value) ==
    IF value = {} THEN [panic |-> FALSE, h |-> h]
    ELSE addValue(h, value)

\* Hll.AddRaw from the bootstrap of the storage on, for a value that is not zero
addValue(h, value) ==
    LET st == h.settings
        s0 == IF h.storage.type # "nil" THEN h.storage
              ELSE IF st.explicitThreshold > 0 THEN makeExplicit
              ELSE IF st.sparseEnabled THEN makeSparse
              ELSE newDenseStorage(st)
    IN  IF s0.type = "explicit"
        THEN LET h1 == [h EXCEPT !.storage = [s0 EXCEPT !.set = @ \cup {value}]]
             IN  IF overCapacity(h1.storage, st) THEN upgrade(h1)
                 ELSE [panic |-> FALSE, h |-> h1]
        ELSE LET substreamValue == Shr64(value, st.log2m)
             IN  IF substreamValue = {}
                 THEN [panic |-> FALSE, h |-> [h EXCEPT !.storage = s0]]
                 ELSE LET pW == (1 + TrailingZeros64(Or64(substreamValue, st.pwMaxMask))) % 256
                          i == IntOf(And64(value, st.mBitsMask))
                          r == setIfGreater(s0, st, i, pW)
                          h1 == [h EXCEPT !.storage = r.s]
                      IN  IF r.panic THEN [panic |-> TRUE, h |-> h1]
                          ELSE IF overCapacity(h1.storage, st) THEN upgrade(h1)
                          ELSE [panic |-> FALSE, h |-> h1]

upgrade(h) ==
    LET s == h.storage
        st == h.settings
    IN  CASE s.type = "explicit" ->
                addFromExplicit([h EXCEPT !.storage =
                                    IF st.sparseEnabled THEN makeSparse
                                    ELSE newDenseStorage(st)], s.set)
          [] s.type = "sparse" ->
                LET r == sparseToDense(st, s)
                IN  [panic |-> r.panic, h |-> [h EXCEPT !.storage = r.s]]
          [] OTHER -> [panic |-> FALSE, h |-> h]

\* for k := range explicit { h.AddRaw(k) }
addFromExplicit(h, values) ==
    IF values = {} THEN [panic |-> FALSE, h |-> h]
    ELSE LET v == CHOOSE x \in values : \A y \in values : y = x \/ Ult64(x, y)
         IN  addRest(AddRaw(h, v), values \ {v})

\* the rest of the loop, after an AddRaw that ended as r
addRest(r, values) == IF r.panic THEN r ELSE addFromExplicit(r.h, values)

\* the loop of denseUnion for differing settings
RECURSIVE denseUnionRegs(_, _, _, _, _)
denseUnionRegs(r, other, thisSettings, otherSettings, i) ==
    IF i >= 2 ^ thisSettings.log2m \/ r.panic THEN r
    ELSE LET g == denseGet(other, i, otherSettings.log2m)
             regVal == AndByte(g.v, ByteOf(thisSettings.mBitsMask))
         IN  IF g.panic THEN Panic(r.s)
             ELSE denseUnionRegs(denseSetIfGreater(r.s, thisSettings, i, regVal),
                                 other, thisSettings, otherSettings, i + 1)

denseUnion(thisStorage, otherStorage, thisSettings, otherSettings) ==
    IF thisSettings.log2m = otherSettings.log2m /\ thisSettings.regwidth = otherSettings.regwidth
    THEN denseStorageUnion(thisStorage, thisSettings, otherStorage.words)
    ELSE denseUnionRegs(Ok(thisStorage), otherStorage.words, thisSettings, otherSettings, 0)

\* for k, v := range otherStorage { v = v & byte(mBitsMask); setIfGreater(k, v) }
RECURSIVE unionSparseInto(_, _, _, _)
unionSparseInto(r, st, map, keys) ==
    IF keys = <<>> \/ r.panic THEN r
    ELSE LET v == AndByte(map[Head(keys)], ByteOf(st.mBitsMask))
         IN  unionSparseInto(setIfGreater(r.s, st, Head(keys), v), st, map, Tail(keys))

\* a call that ended as u and returns no error: [err, panic, h]
Returns(u) == [err |-> "nil", panic |-> u.panic, h |-> u.h]

\* h with the storage a storage operation ended with: [panic, h]
With(h, r) == [panic |-> r.panic, h |-> [h EXCEPT !.storage = r.s]]

\* the capacity check that ends Hll.union
unionFinish(r) ==
    IF ~r.panic /\ overCapacity(r.h.storage, r.h.settings) THEN Returns(upgrade(r.h))
    ELSE Returns(r)

\* a union into an empty receiver that always goes to dense registers
unionIntoEmptyDense(h, os) ==
    IF os.type = "sparse" THEN sparseToDense(h.settings, os) ELSE Ok(copy(os))

\* Hll.union into an empty receiver: the other's storage is copied
unionIntoEmpty(h, os) ==
    IF os.type = "sparse" /\ ~h.settings.sparseEnabled
    THEN sparseToDense(h.settings, os)
    ELSE Ok(copy(os))

\* the dense union of Hll.union, the receiver (upgraded from sparse) being u
unionDense(u, other) ==
    IF u.panic THEN u
    ELSE With(u.h, denseUnion(u.h.storage, other.storage, u.h.settings, other.settings))

\* Hll.union, the switch on the two storage types: [panic, h]
unionStorage(h, other) ==
    LET st == h.settings
        os == other.storage
        ts == h.storage
    IN  CASE os.type = "explicit" -> addFromExplicit(h, os.set)
          [] ts.type = "explicit" -> addRest(With(h, unionIntoEmpty(h, os)), ts.set)
          [] os.type = "sparse" ->
                With(h, unionSparseInto(Ok(ts), st, os.map, SortedKeys(DOMAIN os.map)))
          [] OTHER ->
                unionDense(IF ts.type = "sparse" THEN upgrade(h)
                           ELSE [panic |-> FALSE, h |-> h], other)

\* Hll.union: [err, panic, h]
union(h, other, strict) ==
    LET sameSettings == h.settings.regwidth = other.settings.regwidth
                        /\ h.settings.log2m = other.settings.log2m
    IN  IF strict /\ ~sameSettings THEN [err |-> "ErrIncompatible", panic |-> FALSE, h |-> h]
        ELSE IF other.storage.type = "nil" THEN [err |-> "nil", panic |-> FALSE, h |-> h]
        ELSE IF h.storage.type = "nil"
        THEN Returns(With(h, unionIntoEmpty(h, other.storage)))
        ELSE unionFinish(unionStorage(h, other))

(***************************************************************************)
(* Cardinality.  The float64 sum of the indicator is a sum of powers of    *)
(* two 2^(-v); it is kept exactly, as [inf, int, frac]: int is its integer *)
(* part, frac the set of the k with the bit 2^(-k) set in its fractional   *)
(* part, and inf says that a term was 1/0 (a shift of 64 or more gives 0). *)
(* float64 holds such a sum exactly while it spans at most 53 bits, which  *)
(* is so for register values up to 31 and log2m up to 22.  The constants   *)
(* of the estimator are ratios [num, den] of integers, and the comparisons *)
(* and the rounding up of the quotients are exact.                         *)
(***************************************************************************)
ZeroSum == [inf |-> FALSE, int |-> 0, frac |-> {}]

\* sum += 1.0 / float64(uint64(1) << value)
RECURSIVE addPow(_, _)
addPow(sum, value) ==
    IF value >= 64 THEN [sum EXCEPT !.inf = TRUE]
    ELSE IF value = 0 THEN [sum EXCEPT !.int = @ + 1]
    ELSE IF value \in sum.frac THEN addPow([sum EXCEPT !.frac = @ \ {value}], value - 1)
    ELSE [sum EXCEPT !.frac = @ \cup {value}]

\* for _, v := range s { sum += 1.0 / float64(uint64(1)<<v) }
RECURSIVE sparseSum(_, _, _)
sparseSum(sum, map, keys) ==
    IF keys = {} THEN sum
    ELSE LET k == SetMin(keys)
         IN  sparseSum(addPow(sum, map[k]), map, keys \ {k})

\* sparseStorage.indicator: [panic, sum, numberOfZeros]
sparseIndicator(s, st) ==
    LET numberOfZeros == (2 ^ st.log2m) - Cardinality(DOMAIN s.map)
    IN  [panic |-> FALSE,
         sum |-> [sparseSum(ZeroSum, s.map, DOMAIN s.map) EXCEPT !.int = @ + numberOfZeros],
         numberOfZeros |-> numberOfZeros]

\* the end of an iteration of the loop of denseStorage.indicator, the
\* register read being value
indicated(c, value) ==
    [c EXCEPT !.sum = addPow(c.sum, IntOf(value)),
              !.numberOfZeros = IF value = {} THEN @ + 1 ELSE @]

\* one iteration of the loop of denseStorage.indicator; c is the loop's
\* state: [panic, idx, pos, curr, mask, sum, numberOfZeros]
denseIndicatorStep(c, st, words) ==
    LET bitsAvailable == 64 - c.pos
        rw == st.regwidth
        nLowerBits == rw - bitsAvailable
        lowerMask == Shl64(Dec64(Shl64({0}, nLowerBits)), 64 - nLowerBits)
    IN  IF bitsAvailable >= rw
        THEN indicated([c EXCEPT !.pos = c.pos + rw, !.mask = Shr64(c.mask, rw)],
                       Shr64(And64(c.curr, c.mask), 64 - c.pos - rw))
        ELSE IF ~InRange(words, c.idx + 1) THEN [c EXCEPT !.panic = TRUE]
        ELSE indicated([c EXCEPT !.idx = c.idx + 1,
                                 !.curr = words[c.idx + 2],
                                 !.pos = nLowerBits,
                                 !.mask = Shr64(Shl64(st.mBitsMask, 64 - rw), nLowerBits)],
                       Or64(IF bitsAvailable > 0
                            THEN Shl64(And64(c.curr, c.mask), nLowerBits)
                            ELSE {},
                            Shr64(And64(words[c.idx + 2], lowerMask), 64 - nLowerBits)))

RECURSIVE denseIndicatorLoop(_, _, _, _, _)
denseIndicatorLoop(c, st, words, i, numReg) ==
    IF i >= numReg \/ c.panic THEN c
    ELSE denseIndicatorLoop(denseIndicatorStep(c, st, words), st, words, i + 1, numReg)

\* denseStorage.indicator: [panic, sum, numberOfZeros]
denseIndicator(s, st) ==
    IF ~InRange(s.words, 0) THEN [panic |-> TRUE, sum |-> ZeroSum, numberOfZeros |-> 0]
    ELSE denseIndicatorLoop([panic |-> FALSE, idx |-> 0, pos |-> 0, curr |-> s.words[1],
                             mask |-> Shl64(st.mBitsMask, 64 - st.regwidth),
                             sum |-> ZeroSum, numberOfZeros |-> 0],
                            st, s.words, 0, 2 ^ st.log2m)

\* registers.indicator
indicator(s, st) == IF s.type = "sparse" THEN sparseIndicator(s, st) ELSE denseIndicator(s, st)

\* alphaMSquared, as a ratio
alphaMSquared(log2m) ==
    LET m == 2 ^ log2m
    IN  CASE log2m = 4 -> [num |-> 673 * m * m, den |-> 1000]
          [] log2m = 5 -> [num |-> 697 * m * m, den |-> 1000]
          [] log2m = 6 -> [num |-> 709 * m * m, den |-> 1000]
          [] OTHER -> [num |-> 7213 * m * m * m, den |-> (10000 * m) + 10790]

\* a cutoff is the float64 num * 2^shift / den
smallEstimatorCutoff(m) == [num |-> m * 5, den |-> 2, shift |-> 0]

\* math.Pow(2, float64(totalBits)), kept as its exponent
twoToL(log2m, regwidth) == ((2 ^ regwidth) - 1) - 1 + log2m

largeEstimatorCutoff(t) == [num |-> 1, den |-> 30, shift |-> t]

\* the n low bits of q
LowBits(q, n) == IF n > 30 THEN q ELSE q % (2 ^ n)

\* bit n of q
BitOf(q, n) == n <= 30 /\ (q \div (2 ^ n)) % 2 = 1

\* the fraction with the bits frac from 2^(-k) on against the fractional part
\* of (q + r/b) / 2^shift from that bit on, where 0 <= r < b: -1 when it is
\* below, 0 when equal, 1 when above
RECURSIVE fracCmp(_, _, _, _, _, _)
fracCmp(frac, k, q, r, b, shift) ==
    IF \A j \in frac : j < k
    THEN (IF r = 0 /\ (k <= shift => LowBits(q, shift - k + 1) = 0) THEN 0 ELSE -1)
    ELSE LET bit == IF k <= shift THEN BitOf(q, shift - k) ELSE 2 * r >= b
         IN  IF k \in frac /\ ~bit THEN 1
             ELSE IF k \notin frac /\ bit THEN -1
             ELSE IF k <= shift THEN fracCmp(frac, k + 1, q, r, b, shift)
             ELSE fracCmp(frac, k + 1, q, IF bit THEN (2 * r) - b ELSE 2 * r, b, shift)

\* sum against (a/b) / 2^shift: -1 when it is below, 0 when equal, 1 when above
sumCmp(sum, a, b, shift) ==
    LET whole == IF shift > 30 THEN 0 ELSE (a \div b) \div (2 ^ shift)
    IN  IF sum.inf THEN 1
        ELSE IF sum.int > whole THEN 1
        ELSE IF sum.int < whole THEN -1
        ELSE fracCmp(sum.frac, 1, a \div b, a % b, b, shift)

\* estimator := alphaMSquared / sum against a cutoff: -1 when the estimator
\* is below the cutoff, 0 when equal, 1 when above
estimatorCmp(sum, alpha, cutoff) ==
    0 - sumCmp(sum, alpha.num * cutoff.den, cutoff.num * alpha.den, cutoff.shift)

\* uint64(math.Ceil(alphaMSquared / sum)): the least n with n * sum >= alphaMSquared
ceilEstimator(sum, alpha) ==
    IF sum.inf THEN 0
    ELSE LET top == ((alpha.num \div alpha.den) + 1)
                    * (IF sum.int >= 1 THEN 1 ELSE 2 ^ SetMin(sum.frac))
         IN  SetMin({n \in 1 .. top : sumCmp(sum, alpha.num, n * alpha.den, 0) >= 0})

\* math.Log of the integers 1 .. 64, in millionths, rounded down
LogMicro ==
    << 0, 693147, 1098612, 1386294, 1609437, 1791759, 1945910, 2079441,
       2197224, 2302585, 2397895, 2484906, 2564949, 2639057, 2708050, 2772588,
       2833213, 2890371, 2944438, 2995732, 3044522, 3091042, 3135494, 3178053,
       3218875, 3258096, 3295836, 3332204, 3367295, 3401197, 3433987, 3465735,
       3496507, 3526360, 3555348, 3583518, 3610917, 3637586, 3663561, 3688879,
       3713572, 3737669, 3761200, 3784189, 3806662, 3828641, 3850147, 3871201,
       3891820, 3912023, 3931825, 3951243, 3970291, 3988984, 4007333, 4025351,
       4043051, 4060443, 4077537, 4094344, 4110873, 4127134, 4143134, 4158883 >>

\* uint64(math.Ceil(float64(m) * math.Log(float64(m)/float64(numberOfZeroes)))),
\* for m up to 64, where the rounding of the table does not reach the result
smallEstimator(m, numberOfZeroes) ==
    ((m * (LogMicro[m] - LogMicro[numberOfZeroes])) + 999999) \div 1000000

\* -1 * twoToL * math.Log(1.0 - (estimator/twoToL)), rounded up: the
\* logarithm of a ratio that is no integer is not computed here; the result
\* is kept as the estimator (rounded up) it is the correction of
largeEstimator(sum, alpha, t) == [corrected |-> ceilEstimator(sum, alpha), twoToL |-> t]

\* the estimate of Hll.Cardinality for the indicator (sum, numberOfZeroes)
estimate(st, sum, numberOfZeroes) ==
    LET m == 2 ^ st.log2m
        alpha == alphaMSquared(st.log2m)
        t == twoToL(st.log2m, st.regwidth)
    IN  IF numberOfZeroes # 0 /\ estimatorCmp(sum, alpha, smallEstimatorCutoff(m)) < 0
        THEN smallEstimator(m, numberOfZeroes)
        ELSE IF estimatorCmp(sum, alpha, largeEstimatorCutoff(t)) <= 0
        THEN ceilEstimator(sum, alpha)
        ELSE largeEstimator(sum, alpha, t)

\* Hll.Cardinality after the indicator ended as ind: [panic, n]
estimated(st, ind) ==
    IF ind.panic THEN [panic |-> TRUE, n |-> 0]
    ELSE [panic |-> FALSE, n |-> estimate(st, ind.sum, ind.numberOfZeros)]

\* Hll.Cardinality of an initialized counter: [panic, n]
HllCardinality(h) ==
    CASE h.storage.type = "explicit" -> [panic |-> FALSE, n |-> Cardinality(h.storage.set)]
      [] h.storage.type \in {"sparse", "dense"} ->
            estimated(h.settings, indicator(h.storage, h.settings))
      [] OTHER -> [panic |-> FALSE, n |-> 0]

(***************************************************************************)
(* Serialization                                                           *)
(***************************************************************************)
packCutoffByte(st) ==
    LET threshold == IF st.explicitAuto THEN 63
                     ELSE IF st.explicitThreshold = 0 THEN 0
                     ELSE ((Len32(st.explicitThreshold) % 256) - 1) % 256
    IN  IF st.sparseEnabled THEN OrByte(threshold, 64) ELSE threshold

\* unpackCutoffByte: [sparseEnabled, explicitThreshold]; a decoded threshold
\* of 2^31 or more is reported as 2^30 (it is only ever compared with
\* maximumExplicitThreshold)
unpackCutoffByte(b) ==
    LET sparseEnabled == (b \div 64) = 1
        expThreshold == AndByte(b, 63)
    IN  [sparseEnabled |-> sparseEnabled,
         explicitThreshold |->
             IF expThreshold = 0 THEN 0
             ELSE IF expThreshold = 63 THEN -1
             ELSE IF expThreshold - 1 <= 30 THEN 2 ^ (expThreshold - 1)
             ELSE 2 ^ 30]

StorageTypeCode(s) ==
    CASE s.type = "explicit" -> 2
      [] s.type = "sparse" -> 3
      [] s.type = "dense" -> 4
      [] OTHER -> 1

\* Hll.ToBytes: [panic, bytes]
ToBytes(h) ==
    LET st == h.settings
        s == h.storage
        bytesNeeded == CASE s.type = "explicit" -> explicitSizeInBytes(s)
                         [] s.type = "sparse" -> sparseSizeInBytes(s, st)
                         [] s.type = "dense" -> denseSizeInBytes(st)
                         [] OTHER -> 0
        header == << OrByte(16, StorageTypeCode(s)),
                     (((st.regwidth - 1) * 32) + st.log2m) % 256,
                     packCutoffByte(st) >>
        payload == CASE s.type = "explicit" -> [panic |-> FALSE, bytes |-> explicitWriteBytes(s)]
                     [] s.type = "sparse" -> sparseWriteBytes(s, st, bytesNeeded)
                     [] s.type = "dense" -> denseWriteBytes(s.words, bytesNeeded)
                     [] OTHER -> [panic |-> FALSE, bytes |-> <<>>]
    IN  [panic |-> payload.panic, bytes |-> header \o payload.bytes]

\* the settings cache after FromBytes: toInternal is called once the version
\* and the type of the header are accepted
FromBytesCache(cache, bytes) ==
    IF Len(bytes) < 3 THEN cache
    ELSE IF bytes[1] \div 16 # 1 \/ AndByte(bytes[1], 15) < 1 \/ AndByte(bytes[1], 15) > 4
    THEN cache
    ELSE toInternalCached(cache,
                          [Log2m |-> AndByte(bytes[2], 31),
                           Regwidth |-> (bytes[2] \div 32) + 1,
                           SparseEnabled |-> unpackCutoffByte(bytes[3]).sparseEnabled,
                           ExplicitThreshold |-> unpackCutoffByte(bytes[3]).explicitThreshold],
                          0).cache

\* FromBytes: [err, h]; h is the zero value when err is not "nil"
FromBytes(bytes) ==
    IF Len(bytes) < 3 THEN [err |-> "ErrInsufficientBytes", h |-> ZeroHll]
    ELSE LET version == bytes[1] \div 16
             storageType == AndByte(bytes[1], 15)
             regwidth == (bytes[2] \div 32) + 1
             log2m == AndByte(bytes[2], 31)
             cutoff == unpackCutoffByte(bytes[3])
             settings == [Log2m |-> log2m, Regwidth |-> regwidth,
                          SparseEnabled |-> cutoff.sparseEnabled,
                          ExplicitThreshold |-> cutoff.explicitThreshold]
             storageBytes == SubSeq(bytes, 4, Len(bytes))
         IN  IF version # 1 THEN [err |-> "unsupported Hll version", h |-> ZeroHll]
             ELSE IF storageType < 1 \/ storageType > 4
             THEN [err |-> "invalid Hll type", h |-> ZeroHll]
             ELSE IF validate(settings) # "nil" THEN [err |-> validate(settings), h |-> ZeroHll]
             ELSE LET st == toInternal(settings)
                      r == CASE storageType = 2 -> explicitFromBytes(makeExplicit, storageBytes)
                             [] storageType = 3 ->
                                    [err |-> "nil",
                                     s |-> sparseFromBytes(makeSparse, st, storageBytes)]
                             [] storageType = 4 ->
                                    denseFromBytes(newDenseStorage(st), st, storageBytes)
                             [] OTHER -> [err |-> "nil", s |-> NilStorage]
                  IN  IF r.err # "nil" THEN [err |-> r.err, h |-> ZeroHll]
                      ELSE [err |-> "nil", h |-> [settings |-> st, storage |-> r.s]]

(***************************************************************************)
(* The program state: two counters held by the caller.  hll[i] is the Hll  *)
(* struct of counter i: its settings and ref, the storage object it points *)
(* to (0 is nil).  heap[r] is the contents of storage object r.            *)
(* last describes the most recent call: the operation, its receiver, its   *)
(* other operand (0 if none), the error it returned, whether it panicked   *)
(* (an unrecovered panic ends the program), the storage type the receiver  *)
(* had before the call, the bytes ToBytes returned, and the number of calls *)
(* the caller has left.                                                    *)
(* hist[i] is kept by the runs that build counters to compare them: the    *)
(* hashes passed to AddRaw on counter i, followed by those of the counter  *)
(* united into it, and how it was made ("built" from NewHll by AddRaw      *)
(* only, "united" by one Union of two built counters).                     *)
(***************************************************************************)
Ctr == {1, 2}

\* the goroutines that call Defaults
NumGoroutines == 2

Goroutines == 1 .. NumGoroutines

\* a goroutine that is in no call and has n calls left; in a call, pc is the
\* critical section it is about to enter, arg the Settings it was called
\* with, s the pointer toInternal gave it; after a call err is what it returned
Idle(n) == [pc |-> "idle", arg |-> ZeroSettings, s |-> NilPointer, err |-> "nil", left |-> n]

\* the caller makes at most MaxCalls calls
MaxCalls == 4

\* the Settings the callers use
SettingsSeq ==
    << [Log2m |-> 4, Regwidth |-> 1, ExplicitThreshold |-> 1, SparseEnabled |-> TRUE],
       [Log2m |-> 4, Regwidth |-> 5, ExplicitThreshold |-> 0, SparseEnabled |-> FALSE],
       [Log2m |-> 4, Regwidth |-> 5, ExplicitThreshold |-> 0, SparseEnabled |-> TRUE],
       [Log2m |-> 5, Regwidth |-> 2, ExplicitThreshold |-> 0, SparseEnabled |-> TRUE] >>

SettingsPool == {SettingsSeq[n] : n \in DOMAIN SettingsSeq}

\* the pairs of Settings the two counters start with; the counters are
\* interchangeable, so the first one takes the earlier Settings
SettingsPairs ==
    {<<SettingsSeq[p[1]], SettingsSeq[p[2]]>> :
        p \in {q \in (DOMAIN SettingsSeq) \X (DOMAIN SettingsSeq) : q[1] <= q[2]}}

\* the hashed values the callers add
HashSeq ==
    << {0, 6},         \* register 1; p(w) 3 at log2m 4, 2 at log2m 5
       {0, 19},        \* register 1; p(w) 16 at log2m 4, 15 at log2m 5
       {1, 3, 4, 9},   \* register 10 at log2m 4, register 26 at log2m 5
       {0, 1, 63},     \* register 3; negative as an int64
       {0, 1},         \* register 3; the substream is zero
       Bits64 >>       \* 2^64 - 1: register 15 at log2m 4

NumHashes == 3

Hashes == {HashSeq[n] : n \in 1 .. NumHashes}

Value(i) ==
    [settings |-> hll[i].settings,
     storage |-> IF hll[i].ref = 0 THEN NilStorage ELSE heap[hll[i].ref]]

\* the counter as the other operand of a call sees it
AsOther(i) ==
    [Value(i) EXCEPT !.storage.obj = IF Value(i).storage.type = "nil" THEN "this" ELSE "other"]

\* the storage object an allocation by counter i yields: one no other counter holds
Alloc(i) ==
    IF \A j \in Ctr \ {i} : hll[j].ref # i THEN i
    ELSE CHOOSE r \in Ctr : \A j \in Ctr \ {i} : hll[j].ref # r

\* the reference counter i holds after a call that left it with storage s
RefAfter(i, o, s) ==
    CASE s.type = "nil" -> 0
      [] s.obj = "this" -> hll[i].ref
      [] s.obj = "other" -> hll[o].ref
      [] OTHER -> Alloc(i)

\* the state after a call on counter i (other operand o) that left it as h
Store(i, o, h) ==
    LET r == RefAfter(i, o, h.storage)
        hll1 == [hll EXCEPT ![i] = [settings |-> h.settings, ref |-> r]]
    IN  /\ hll' = hll1
        /\ heap' = [x \in Ctr |->
                       IF x = r THEN [h.storage EXCEPT !.obj = "this"]
                       ELSE IF \E j \in Ctr : hll1[j].ref = x THEN heap[x]
                       ELSE NilStorage]

Running == ~last.panic /\ last.left > 0

\* what a call leaves in last
Called(op, i, j, err, panic) ==
    [op |-> op, ctr |-> i, other |-> j, err |-> err, panic |-> panic,
     pre |-> Value(i).storage.type, bytes |-> <<>>, left |-> last.left - 1]

NoHistory == [adds |-> <<>>, how |-> "built"]

\* the caller has made the calls NewHll(s[1]) and NewHll(s[2]) for a pair s of pairs
Start(pairs, calls) ==
    /\ \E s \in pairs :
          /\ hll = [i \in Ctr |-> [settings |-> toInternal(s[i]), ref |-> 0]]
          /\ pkg = [PkgInit EXCEPT !.settingsCache = {<<s[i], 0>> : i \in Ctr}]
    /\ gor = [g \in Goroutines |-> Idle(0)]
    /\ heap = [x \in Ctr |-> NilStorage]
    /\ last = [op |-> "NewHll", ctr |-> 0, other |-> 0, err |-> "nil", panic |-> FALSE,
               pre |-> "nil", bytes |-> <<>>, left |-> calls]
    /\ hist = [x \in Ctr |-> NoHistory]

Init == Start(SettingsPairs, MaxCalls)

\* h, err := NewHll(s), assigned to counter i
DoNewHll(i, s) ==
    /\ Running
    /\ validate(s) = "nil"
    /\ Store(i, 0, [settings |-> toInternal(s), storage |-> NilStorage])
    /\ last' = Called("NewHll", i, 0, "nil", FALSE)
    /\ pkg' = [pkg EXCEPT !.settingsCache = toInternalCached(@, s, 0).cache]
    /\ UNCHANGED <<hist, gor>>

\* the call op on counter i (other operand j) ended as r: unless it
\* panicked, counter i is what it left
Returned(op, i, j, r) ==
    /\ IF r.panic THEN UNCHANGED <<hll, heap>> ELSE Store(i, j, r.h)
    /\ last' = Called(op, i, j, r.err, r.panic)

\* the call hll[i].AddRaw(v)
CallAddRaw(i, v) ==
    /\ Running
    /\ Returned("AddRaw", i, 0, Returns(AddRaw(Value(i), v)))

\* hll[i].AddRaw(v)
DoAddRaw(i, v) == CallAddRaw(i, v) /\ UNCHANGED <<hist, pkg, gor>>

\* the call hll[i].Union(hll[j]) or hll[i].StrictUnion(hll[j])
CallUnion(op, i, j, strict) ==
    /\ Running
    /\ i # j
    /\ Returned(op, i, j, union(Value(i), AsOther(j), strict))

\* hll[i].Union(hll[j])
DoUnion(i, j) == CallUnion("Union", i, j, FALSE) /\ UNCHANGED <<hist, pkg, gor>>

\* err := hll[i].StrictUnion(hll[j])
DoStrictUnion(i, j) == CallUnion("StrictUnion", i, j, TRUE) /\ UNCHANGED <<hist, pkg, gor>>

\* Hll.Clear
ClearInPlace(h) == h

Clear(h) == [h EXCEPT !.storage = NilStorage]

\* hll[i].Clear()
DoClear(i) ==
    /\ Running
    /\ Store(i, 0, Clear(Value(i)))
    /\ last' = Called("Clear", i, 0, "nil", FALSE)
    /\ UNCHANGED <<hist, pkg, gor>>

Next ==
    \/ \E i \in Ctr, s \in SettingsPool : DoNewHll(i, s)
    \/ \E i \in Ctr, v \in Hashes \cup {{}} : DoAddRaw(i, v)
    \/ \E i \in Ctr, j \in Ctr : DoUnion(i, j)
    \/ \E i \in Ctr, j \in Ctr : DoStrictUnion(i, j)
    \/ \E i \in Ctr : DoClear(i)

Spec == Init /\ [][Next]_vars

(***************************************************************************)
(* Two counters with identical Settings, built side by side and united;    *)
(* hist keeps what was added to each.                                      *)
(***************************************************************************)
InitBuild == Start({<<s, s>> : s \in SettingsPool}, MaxCalls)

\* hll[i].AddRaw(v), recorded
BuildAddRaw(i, v) ==
    /\ CallAddRaw(i, v)
    /\ hist' = [hist EXCEPT ![i] = [adds |-> Append(@.adds, v),
                                    how |-> IF @.how = "built" THEN "built" ELSE "mixed"]]
    /\ UNCHANGED <<pkg, gor>>

\* hll[i].Union(hll[j]), recorded
BuildUnion(i, j) ==
    /\ CallUnion("Union", i, j, FALSE)
    /\ hist' = IF last'.panic THEN hist
               ELSE [hist EXCEPT ![i] =
                        [adds |-> @.adds \o hist[j].adds,
                         how |-> IF @.how = "built" /\ hist[j].how = "built"
                                 THEN "united" ELSE "mixed"]]
    /\ UNCHANGED <<pkg, gor>>

NextBuild ==
    \/ \E i \in Ctr, v \in Hashes \cup {{}} : BuildAddRaw(i, v)
    \/ \E i \in Ctr, j \in Ctr : BuildUnion(i, j)

SpecBuild == InitBuild /\ [][NextBuild]_vars

(***************************************************************************)
(* One counter filled by AddRaw; hist keeps what was added to it.          *)
(***************************************************************************)
\* the caller makes at most MaxAdds calls of AddRaw
MaxAdds == 4

NumAddHashes == 5

AddHashes == {HashSeq[n] : n \in 1 .. NumAddHashes}

AddPool ==
    [Log2m : {4}, Regwidth : {1, 5}, ExplicitThreshold : {AutoExplicitThreshold, 0, 1, 2},
     SparseEnabled : BOOLEAN]

InitAdd == Start({<<s, s>> : s \in AddPool}, MaxAdds)

NextAdd == \E v \in AddHashes \cup {{}} : BuildAddRaw(1, v)

SpecAdd == InitAdd /\ [][NextAdd]_vars

(***************************************************************************)
(* One counter that starts in the sparse tier, of every register width,    *)
(* receives hashes with short and long runs of trailing zeros              *)
(***************************************************************************)
\* the caller makes at most MaxWideAdds calls of AddRaw
MaxWideAdds == 3

WideHashes == {HashSeq[1], HashSeq[2], HashSeq[4], HashSeq[6], {63}, {3, 40}, {5, 35, 36}}

WidePool ==
    [Log2m : {minimumLog2mParam, 11, maximumLog2mParam},
     Regwidth : minimumRegwidthParam .. maximumRegwidthParam,
     ExplicitThreshold : {0}, SparseEnabled : {TRUE}]

InitWide == Start({<<s, s>> : s \in WidePool}, MaxWideAdds)

NextWide == \E v \in WideHashes : BuildAddRaw(1, v)

SpecWide == InitWide /\ [][NextWide]_vars

(***************************************************************************)
(* Counters of many Settings, serialized and read back                     *)
(***************************************************************************)
\* the explicit thresholds 1 .. MaxThreshold are tried, besides auto, 0 and
\* the largest one
MaxThreshold == 9

Thresholds == {AutoExplicitThreshold, 0, maximumExplicitThreshold} \cup (1 .. MaxThreshold)

CodecPool ==
    [Log2m : {4, 11}, Regwidth : {1, 5}, ExplicitThreshold : Thresholds, SparseEnabled : BOOLEAN]

InitCodec == Start({<<s, s>> : s \in CodecPool}, MaxCalls)

\* what ToBytes on counter i, which ended as r, leaves in last
Wrote(i, r) == [Called("ToBytes", i, 0, "nil", r.panic) EXCEPT !.bytes = r.bytes]

\* what FromBytes, which ended as r, leaves: on success counter j is r.h
Read(j, r) ==
    /\ IF r.err = "nil" THEN Store(j, 0, r.h) ELSE UNCHANGED <<hll, heap>>
    /\ last' = Called("FromBytes", j, last.ctr, r.err, FALSE)
    /\ pkg' = [pkg EXCEPT !.settingsCache = FromBytesCache(@, last.bytes)]

\* b := hll[i].ToBytes()
DoToBytes(i) ==
    /\ Running
    /\ last' = Wrote(i, ToBytes(Value(i)))
    /\ UNCHANGED <<hll, heap, hist, pkg, gor>>

\* h, err := FromBytes(b) for the bytes b of the last ToBytes; on success h is
\* assigned to counter j
DoFromBytes(j) ==
    /\ Running
    /\ last.op = "ToBytes"
    /\ Read(j, FromBytes(last.bytes))
    /\ UNCHANGED <<hist, gor>>

NextCodec ==
    \/ \E i \in Ctr, v \in Hashes : DoAddRaw(i, v)
    \/ \E i \in Ctr : DoToBytes(i)
    \/ \E j \in Ctr : DoFromBytes(j)

SpecCodec == InitCodec /\ [][NextCodec]_vars

(***************************************************************************)
(* Goroutines installing defaults.  A call of Defaults is three steps, one *)
(* per critical section: the validation and the read-locked look-up of     *)
(* toInternal, the write-locked insert of toInternal (after a miss), and   *)
(* the locked comparison and assignment of Defaults.                       *)
(***************************************************************************)
\* the Settings Defaults is called with: three valid ones, two invalid ones
DefaultsPool ==
    {SettingsSeq[1], SettingsSeq[2],
     [SettingsSeq[2] EXCEPT !.ExplicitThreshold = AutoExplicitThreshold],
     [SettingsSeq[1] EXCEPT !.Log2m = minimumLog2mParam - 1],
     [SettingsSeq[2] EXCEPT !.ExplicitThreshold = maximumExplicitThreshold + 1]}

\* no counter is used, no default is installed, the cache is empty, and
\* goroutine g has calls[g] calls of Defaults to make
StartDefaults(calls) ==
    /\ hll = [i \in Ctr |-> [settings |-> NilSettings, ref |-> 0]]
    /\ heap = [x \in Ctr |-> NilStorage]
    /\ last = [op |-> "NewHll", ctr |-> 0, other |-> 0, err |-> "nil", panic |-> FALSE,
               pre |-> "nil", bytes |-> <<>>, left |-> 0]
    /\ hist = [x \in Ctr |-> NoHistory]
    /\ pkg = PkgInit
    /\ gor = [g \in Goroutines |-> Idle(calls[g])]

\* goroutine g enters a call
Calling(g) == gor[g].pc \in {"idle", "returned"} /\ gor[g].left > 0

\* goroutine g returns err from its call
Return(g, err) == [gor[g] EXCEPT !.pc = "returned", !.err = err]

\* goroutine g in the call Defaults(settings), which found cached in the cache
Looked(g, settings, cached) ==
    IF validate(settings) # "nil"
    THEN [Idle(gor[g].left - 1) EXCEPT !.pc = "returned", !.arg = settings,
                                       !.err = validate(settings)]
    ELSE [Idle(gor[g].left - 1) EXCEPT !.pc = IF cached = NilPointer THEN "insert"
                                             ELSE "install",
                                       !.arg = settings, !.s = cached]

\* goroutine g calls Defaults(settings): validate, and the look-up of toInternal
DefaultsLookup(g, settings) ==
    /\ Calling(g)
    /\ gor' = [gor EXCEPT ![g] = Looked(g, settings, settingsCacheGet(pkg.settingsCache, settings))]
    /\ UNCHANGED <<hll, heap, last, hist, pkg>>

\* goroutine g derives a settings object and inserts it into the cache
DefaultsInsert(g) ==
    /\ gor[g].pc = "insert"
    /\ pkg' = [pkg EXCEPT !.settingsCache = settingsCachePut(@, <<gor[g].arg, g>>)]
    /\ gor' = [gor EXCEPT ![g] = [@ EXCEPT !.pc = "install", !.s = <<gor[g].arg, g>>]]
    /\ UNCHANGED <<hll, heap, last, hist>>

\* what the locked part of Defaults, which ended as r, leaves
Installed(g, r) ==
    /\ pkg' = r.pkg
    /\ gor' = [gor EXCEPT ![g] = Return(g, r.err)]

\* goroutine g compares its pointer with the defaults and installs it
DefaultsInstall(g) ==
    /\ gor[g].pc = "install"
    /\ Installed(g, install(pkg, gor[g].s))
    /\ UNCHANGED <<hll, heap, last, hist>>

\* every goroutine makes one call
InitDefaults == StartDefaults([g \in Goroutines |-> 1])

NextDefaults ==
    \/ \E g \in Goroutines, s \in DefaultsPool : DefaultsLookup(g, s)
    \/ \E g \in Goroutines : DefaultsInsert(g)
    \/ \E g \in Goroutines : DefaultsInstall(g)

SpecDefaults == InitDefaults /\ [][NextDefaults]_vars

(***************************************************************************)
(* One goroutine installing defaults, call after call                      *)
(***************************************************************************)
MaxInstalls == 5

\* what the call Defaults(settings) of goroutine g, which ended as r, leaves
Finished(g, settings, r) ==
    /\ pkg' = r.pkg
    /\ gor' = [gor EXCEPT ![g] = [Idle(gor[g].left - 1) EXCEPT !.pc = "returned",
                                                              !.arg = settings,
                                                              !.err = r.err]]

\* err := Defaults(settings), the whole call
DoDefaults(g, settings) ==
    /\ Calling(g)
    /\ Finished(g, settings, Defaults(pkg, settings, g))
    /\ UNCHANGED <<hll, heap, last, hist>>

InitInstall == StartDefaults([g \in Goroutines |-> IF g = 1 THEN MaxInstalls ELSE 0])

NextInstall == \E s \in DefaultsPool : DoDefaults(1, s)

SpecInstall == InitInstall /\ [][NextInstall]_vars

(***************************************************************************)
(* Zero-value counters (var h Hll), with and without installed defaults.   *)
(* Every method begins with initOrPanic.                                   *)
(***************************************************************************)
ErrNoDefaults == "attempted operation on empty Hll without default settings"

\* an initOrPanic that takes the first Settings when no defaults are installed
initOrFirst(h, p) ==
    IF h.settings # NilSettings THEN [panic |-> FALSE, h |-> h]
    ELSE IF getDefaults(p) = NilPointer
    THEN [panic |-> FALSE, h |-> [h EXCEPT !.settings = toInternal(SettingsSeq[1])]]
    ELSE [panic |-> FALSE, h |-> [h EXCEPT !.settings = toInternal(getDefaults(p)[1])]]

\* Hll.initOrPanic with the package variables p: [panic, h]
initOrPanic(h, p) ==
    IF h.settings # NilSettings THEN [panic |-> FALSE, h |-> h]
    ELSE IF getDefaults(p) = NilPointer THEN [panic |-> TRUE, h |-> h]
    ELSE [panic |-> FALSE, h |-> [h EXCEPT !.settings = toInternal(getDefaults(p)[1])]]

\* a method whose initOrPanic ended as init and whose body ends as r: [err, panic, h]
Method(init, r) ==
    IF init.panic THEN [err |-> ErrNoDefaults, panic |-> TRUE, h |-> init.h] ELSE r

\* a method of two counters: h.initOrPanic(), then other.initOrPanic() on the copy
Method2(init, other, r) ==
    IF init.panic \/ other.panic THEN [err |-> ErrNoDefaults, panic |-> TRUE, h |-> init.h]
    ELSE r

\* the caller has declared the counters with var, installed no defaults, and
\* has calls calls of methods and installs calls of Defaults to make
StartZero(calls, installs) ==
    /\ hll = [i \in Ctr |-> [settings |-> NilSettings, ref |-> 0]]
    /\ heap = [x \in Ctr |-> NilStorage]
    /\ last = [op |-> "NewHll", ctr |-> 0, other |-> 0, err |-> "nil", panic |-> FALSE,
               pre |-> "nil", bytes |-> <<>>, left |-> calls]
    /\ hist = [x \in Ctr |-> NoHistory]
    /\ pkg = PkgInit
    /\ gor = [g \in Goroutines |-> Idle(IF g = 1 THEN installs ELSE 0)]

\* hll[i].AddRaw(v), recorded
ZeroAddRaw(i, v) ==
    /\ Running
    /\ Returned("AddRaw", i, 0, Method(initOrPanic(Value(i), pkg),
                                       Returns(AddRaw(initOrPanic(Value(i), pkg).h, v))))
    /\ hist' = [hist EXCEPT ![i].adds = Append(@, v)]
    /\ UNCHANGED <<pkg, gor>>

\* n := hll[i].Cardinality()
ZeroCardinality(i) ==
    /\ Running
    /\ Returned("Cardinality", i, 0,
                Method(initOrPanic(Value(i), pkg),
                       [err |-> "nil",
                        panic |-> HllCardinality(initOrPanic(Value(i), pkg).h).panic,
                        h |-> initOrPanic(Value(i), pkg).h]))
    /\ UNCHANGED <<hist, pkg, gor>>

\* s := hll[i].Settings()
ZeroGetSettings(i) ==
    /\ Running
    /\ Returned("Settings", i, 0,
                Method(initOrPanic(Value(i), pkg), Returns(initOrPanic(Value(i), pkg))))
    /\ UNCHANGED <<hist, pkg, gor>>

\* hll[i].Union(hll[j]) or hll[i].StrictUnion(hll[j])
ZeroUnion(op, i, j, strict) ==
    /\ Running
    /\ i # j
    /\ Returned(op, i, j,
                Method2(initOrPanic(Value(i), pkg), initOrPanic(AsOther(j), pkg),
                        union(initOrPanic(Value(i), pkg).h, initOrPanic(AsOther(j), pkg).h,
                              strict)))
    /\ UNCHANGED <<hist, pkg, gor>>

\* what a ToBytes whose initOrPanic ended as init leaves
WroteZero(i, init, r) ==
    /\ IF init.panic THEN UNCHANGED <<hll, heap>> ELSE Store(i, 0, init.h)
    /\ last' = IF init.panic THEN Called("ToBytes", i, 0, ErrNoDefaults, TRUE)
               ELSE Wrote(i, r)

\* b := hll[i].ToBytes()
ZeroToBytes(i) ==
    /\ Running
    /\ WroteZero(i, initOrPanic(Value(i), pkg), ToBytes(initOrPanic(Value(i), pkg).h))
    /\ UNCHANGED <<hist, pkg, gor>>

\* hll[i].Clear()
ZeroClear(i) ==
    /\ Running
    /\ Returned("Clear", i, 0,
                Method(initOrPanic(Value(i), pkg),
                       [err |-> "nil", panic |-> FALSE,
                        h |-> Clear(initOrPanic(Value(i), pkg).h)]))
    /\ UNCHANGED <<hist, pkg, gor>>

\* the caller makes at most MaxZeroCalls calls of methods
MaxZeroCalls == 3

\* and at most MaxZeroInstalls calls of Defaults
MaxZeroInstalls == 2

ZeroHashes == {HashSeq[1], HashSeq[3]}

InitZero == StartZero(MaxZeroCalls, MaxZeroInstalls)

NextZero ==
    \/ \E s \in DefaultsPool : ~last.panic /\ DoDefaults(1, s)
    \/ \E i \in Ctr, s \in DefaultsPool : DoNewHll(i, s)
    \/ \E i \in Ctr, v \in ZeroHashes : ZeroAddRaw(i, v)
    \/ \E i \in Ctr : ZeroCardinality(i)
    \/ \E i \in Ctr : ZeroGetSettings(i)
    \/ \E i \in Ctr, j \in Ctr : ZeroUnion("Union", i, j, FALSE)
    \/ \E i \in Ctr, j \in Ctr : ZeroUnion("StrictUnion", i, j, TRUE)
    \/ \E i \in Ctr : ZeroToBytes(i)
    \/ \E i \in Ctr : ZeroClear(i)

SpecZero == InitZero /\ [][NextZero]_vars

(***************************************************************************)
(* Serialized counters that reach FromBytes damaged: cut short, extended,  *)
(* or with one header byte replaced                                        *)
(***************************************************************************)
\* the first bytes the damaged input may carry in place of byte 0 of b: other
\* versions of the same type, and every type of version 1
VersionTypeBytes(b) ==
    {AndByte(b[1], 15), 32 + AndByte(b[1], 15), 240 + AndByte(b[1], 15)}
        \cup {16 + n : n \in {0, 1, 2, 3, 4, 5, 15}}

\* in place of byte 1: the same regwidth with a log2m below the minimum
Log2mBytes(b) == {((b[2] \div 32) * 32) + n : n \in {0, minimumLog2mParam - 1}}

\* in place of byte 2: explicit thresholds at and above the largest one
CutoffBytes == {maximumExpthreshParam, maximumExpthreshParam + 1, 62, 64 + 19, 128 + 1}

\* b, or b damaged in one place
Mangled(b) ==
    {b, b \o <<0>>}
        \cup {SubSeq(b, 1, k) : k \in 0 .. (Len(b) - 1)}
        \cup {[b EXCEPT ![1] = x] : x \in VersionTypeBytes(b)}
        \cup {[b EXCEPT ![2] = x] : x \in Log2mBytes(b)}
        \cup {[b EXCEPT ![3] = x] : x \in CutoffBytes}

\* hll[j], err = FromBytes(b), which ended as r
ReadInto(j, b, r) ==
    /\ Store(j, 0, r.h)
    /\ last' = [Called("FromBytes", j, last.ctr, r.err, FALSE) EXCEPT !.bytes = b]
    /\ pkg' = [pkg EXCEPT !.settingsCache = FromBytesCache(@, b)]

\* hll[j], err = FromBytes(b) for bytes b that are those of the last ToBytes,
\* damaged or not
DoFromMangled(j, b) ==
    /\ Running
    /\ ReadInto(j, b, FromBytes(b))
    /\ UNCHANGED <<hist, gor>>

\* the caller makes at most MaxMangledCalls calls
MaxMangledCalls == 4

MangledPool ==
    [Log2m : {minimumLog2mParam}, Regwidth : {1, 5}, ExplicitThreshold : {0, 2},
     SparseEnabled : BOOLEAN]

InitMangled == Start({<<s, s>> : s \in MangledPool}, MaxMangledCalls)

NextMangled ==
    \/ \E i \in Ctr, v \in ZeroHashes : ZeroAddRaw(i, v)
    \/ \E i \in Ctr : ZeroToBytes(i)
    \/ \E j \in Ctr : \E b \in (IF last.op = "ToBytes" /\ ~last.panic
                                    THEN Mangled(last.bytes) ELSE {}) :
          DoFromMangled(j, b)

SpecMangled == InitMangled /\ [][NextMangled]_vars

(***************************************************************************)
(* Counters of equal and of differing Settings, filled, united and         *)
(* serialized                                                               *)
(***************************************************************************)
\* the Settings of the empty counter whose bytes are 11 BF 7F
ExampleSettings ==
    [Log2m |-> 31, Regwidth |-> 6, ExplicitThreshold |-> AutoExplicitThreshold,
     SparseEnabled |-> TRUE]

EnvelopePool ==
    {[Log2m |-> 4, Regwidth |-> 1, ExplicitThreshold |-> 0, SparseEnabled |-> FALSE],
     [Log2m |-> 4, Regwidth |-> 5, ExplicitThreshold |-> 0, SparseEnabled |-> FALSE],
     [Log2m |-> 4, Regwidth |-> 5, ExplicitThreshold |-> 2, SparseEnabled |-> TRUE]}

\* the caller makes at most MaxEnvelopeCalls calls
MaxEnvelopeCalls == 4

InitEnvelope ==
    Start((EnvelopePool \X EnvelopePool) \cup {<<ExampleSettings, ExampleSettings>>},
          MaxEnvelopeCalls)

NextEnvelope ==
    \/ \E i \in Ctr, v \in Hashes : DoAddRaw(i, v)
    \/ \E i \in Ctr, j \in Ctr : DoUnion(i, j)
    \/ \E i \in Ctr : DoToBytes(i)

SpecEnvelope == InitEnvelope /\ [][NextEnvelope]_vars

(***************************************************************************)
(* A dense storage whose registers are set one at a time                   *)
(***************************************************************************)
\* storage.setIfGreater(settings, regnum, value) on the dense storage of
\* counter 1, which is allocated by newDenseStorage when the counter is empty
DoSetIfGreater(regnum, value) ==
    /\ Running
    /\ Returned("setIfGreater", 1, 0,
                Returns(With(Value(1),
                             denseSetIfGreater(IF Value(1).storage.type = "nil"
                                               THEN newDenseStorage(Value(1).settings)
                                               ELSE Value(1).storage,
                                               Value(1).settings, regnum, value))))
    /\ UNCHANGED <<hist, pkg, gor>>

\* the caller makes at most MaxSets calls
MaxSets == 3

DensePool ==
    [Log2m : {minimumLog2mParam}, Regwidth : {1, 5, 7}, ExplicitThreshold : {0},
     SparseEnabled : {FALSE}]

\* registers at both ends of the storage and around the ends of its words:
\* register 12 of width 5 and register 9 of width 7 lie in two words
DenseRegisters == {0, 8, 9, 10, 12, 13, 15}

\* the values offered to a register of the width of counter 1
DenseValues == {1, 2, (2 ^ hll[1].settings.regwidth) - 1} \cap (1 .. ((2 ^ hll[1].settings.regwidth) - 1))

InitDense == Start({<<s, s>> : s \in DensePool}, MaxSets)

NextDense == \E regnum \in DenseRegisters, value \in DenseValues : DoSetIfGreater(regnum, value)

SpecDense == InitDense /\ [][NextDense]_vars

(***************************************************************************)
(* A zeroed byte slice into which fields are written by writeBits; the     *)
(* slice is last.bytes, last.pre is the slice before the last call, and    *)
(* hist[1].adds keeps the fields written                                   *)
(***************************************************************************)
\* the length of the slice
BufBytes == 10

\* the caller makes at most MaxWrites calls of writeBits
MaxWrites == 3

\* the widths of the fields
BitWidths == {1, 5, 9, 13, 64}

\* the values written: all ones, and one with bits at both ends
BitValues == {Bits64, {0, 2, 63}}

\* bit p (0 is the most significant bit of byte 0) of the slice b is set
BitAt(b, p) == (7 - (p % 8)) \in U64(b[(p \div 8) + 1])

\* the field [addr, addr + nBits) lies in the slice b and is zero
ZeroField(b, addr, nBits) ==
    /\ addr + nBits <= 8 * Len(b)
    /\ \A p \in addr .. (addr + nBits - 1) : ~BitAt(b, p)

\* what writeBits, which ended as w, leaves
Written(addr, value, nBits, w) ==
    /\ last' = [last EXCEPT !.op = "writeBits", !.panic = w.panic, !.pre = last.bytes,
                            !.bytes = w.bytes, !.left = @ - 1]
    /\ hist' = [hist EXCEPT ![1].adds =
                    Append(@, [addr |-> addr, value |-> value, nBits |-> nBits])]

\* no field written so far shares a bit with [addr, addr + nBits)
FreeField(addr, nBits) ==
    \A k \in DOMAIN hist[1].adds :
       \/ hist[1].adds[k].addr + hist[1].adds[k].nBits <= addr
       \/ addr + nBits <= hist[1].adds[k].addr

\* writeBits(bytes, addr, value, nBits) on the slice, whose target bits are zero
\* and belong to no other field
DoWriteBits(addr, value, nBits) ==
    /\ Running
    /\ ZeroField(last.bytes, addr, nBits)
    /\ FreeField(addr, nBits)
    /\ Written(addr, value, nBits, writeBits(last.bytes, addr, value, nBits))
    /\ UNCHANGED <<hll, heap, pkg, gor>>

InitBits ==
    /\ hll = [i \in Ctr |-> [settings |-> NilSettings, ref |-> 0]]
    /\ heap = [x \in Ctr |-> NilStorage]
    /\ last = [op |-> "make", ctr |-> 0, other |-> 0, err |-> "nil", panic |-> FALSE,
               pre |-> <<>>, bytes |-> [j \in 1 .. BufBytes |-> 0], left |-> MaxWrites]
    /\ hist = [x \in Ctr |-> NoHistory]
    /\ pkg = PkgInit
    /\ gor = [g \in Goroutines |-> Idle(0)]

\* fields are packed back to back, i * nBits, or start at bit 3
NextBits ==
    \E nBits \in BitWidths : \E addr \in {i * nBits : i \in 0 .. 2} \cup {3} :
       \E value \in BitValues : DoWriteBits(addr, value, nBits)

SpecBits == InitBits /\ [][NextBits]_vars

(***************************************************************************)
(* What is stored in a counter                                             *)
(***************************************************************************)
\* the tier and the stored contents of a storage, whichever object holds them
Contents(s) == [type |-> s.type, set |-> s.set, map |-> s.map, words |-> s.words]

IsRegisterTier(h) == h.storage.type \in {"sparse", "dense"}

\* the register numbers a counter in a register tier holds a value for
RegisterNumbers(h) ==
    (0 .. ((2 ^ h.settings.log2m) - 1))
        \cup (IF h.storage.type = "sparse" THEN DOMAIN h.storage.map ELSE {})

\* the value of register regnum of a counter in a register tier
registerValue(h, regnum) ==
    IF h.storage.type = "sparse" THEN sparseGet(h.storage.map, regnum)
    ELSE LET g == denseGet(h.storage.words, regnum, h.settings.regwidth)
         IN  IF g.panic THEN 0 ELSE g.v

maxRegisterValue(st) == (2 ^ st.regwidth) - 1

(***************************************************************************)
(* C1  Serialization round trip                                            *)
(***************************************************************************)
\* FromBytes(h.ToBytes()) returns no error and a counter in the same tier
\* with the same stored contents
ReadsBack(h, r) == r.err = "nil" /\ Contents(r.h.storage) = Contents(h.storage)

WritesAndReadsBack(h, b) == ~b.panic /\ ReadsBack(h, FromBytes(b.bytes))

RoundTrips(h) == WritesAndReadsBack(h, ToBytes(h))

\* C1: every counter reachable from NewHll by AddRaw and Union is given back
\* by FromBytes(ToBytes()) in the same storage tier with equal contents (the
\* same explicit set, the same sparse map, the same dense words).
C1_RoundTrip == \A i \in Ctr : RoundTrips(Value(i))

(***************************************************************************)
(* C3  Register values are bounded by the counter's own regwidth           *)
(***************************************************************************)
\* C3: after any sequence of AddRaw, Union, StrictUnion and Clear, every
\* register value stored in a sparse or dense counter is at most
\* 2^regwidth - 1 of that counter's own settings.
C3_RegisterBound ==
    \A i \in Ctr :
        IsRegisterTier(Value(i)) =>
            \A regnum \in RegisterNumbers(Value(i)) :
                registerValue(Value(i), regnum) <= maxRegisterValue(Value(i).settings)

(***************************************************************************)
(* C4  Register updates are monotonic                                      *)
(***************************************************************************)
\* C4: while a counter stays in a register tier (sparse or dense, also
\* across a sparse -> dense promotion), no AddRaw, Union or StrictUnion on
\* it decreases the value of any of its registers.
C4_Monotonic ==
    [][ \A i \in Ctr :
           ( /\ last'.op \in {"AddRaw", "Union", "StrictUnion"}
             /\ last'.ctr = i
             /\ ~last'.panic
             /\ IsRegisterTier(Value(i))
             /\ IsRegisterTier(Value(i)') )
           => \A regnum \in RegisterNumbers(Value(i)) :
                 registerValue(Value(i)', regnum) >= registerValue(Value(i), regnum) ]_vars

(***************************************************************************)
(* C5  Tier capacity                                                       *)
(***************************************************************************)
\* C5: after every completed AddRaw, Union or StrictUnion the receiver is
\* not over capacity for its own settings: explicit storage holds at most
\* explicitThreshold values (none at all when the threshold is 0) and sparse
\* storage holds at most sparseThreshold entries.
C5_TierCapacity ==
    (last.op \in {"AddRaw", "Union", "StrictUnion"} /\ ~last.panic)
    => LET h == Value(last.ctr)
       IN  /\ ~overCapacity(h.storage, h.settings)
           /\ h.settings.explicitThreshold = 0 => h.storage.type # "explicit"

(***************************************************************************)
(* C6  A union never mutates its source                                    *)
(***************************************************************************)
\* no two counters point to the same storage object
NoSharedStorage ==
    \A i \in Ctr : \A j \in Ctr \ {i} : hll[i].ref # 0 => hll[i].ref # hll[j].ref

\* C6: h.Union(other) and h.StrictUnion(other) leave other as it was in every
\* combination of tiers, and no later AddRaw or Union on h changes other:
\* the two counters never share storage.
C6_SourceUnchanged ==
    /\ []NoSharedStorage
    /\ [][ \A i \in Ctr : \A j \in Ctr \ {i} :
               (last'.op \in {"AddRaw", "Union", "StrictUnion"} /\ last'.ctr = i)
               => Value(j)' = Value(j) ]_vars

\* a union into an empty receiver has given it the other counter's contents
C6_Witness ==
    /\ last.op \in {"Union", "StrictUnion"}
    /\ last.pre = "nil"
    /\ ~last.panic
    /\ Value(last.ctr).storage.type # "nil"
    /\ Contents(Value(last.ctr).storage) = Contents(Value(last.other).storage)

(***************************************************************************)
(* C7  StrictUnion and ErrIncompatible                                     *)
(***************************************************************************)
sameSettings(i, j) ==
    /\ hll[i].settings.regwidth = hll[j].settings.regwidth
    /\ hll[i].settings.log2m = hll[j].settings.log2m

\* C7: h.StrictUnion(other) returns ErrIncompatible exactly when h and other
\* differ in log2m or in regwidth; when it does, h's storage is unchanged,
\* and otherwise it returns nil and has performed the union.
C7_StrictUnion ==
    [][ \A i \in Ctr : \A j \in Ctr \ {i} :
            (last'.op = "StrictUnion" /\ last'.ctr = i /\ last'.other = j)
            => /\ (last'.err = "ErrIncompatible") <=> ~sameSettings(i, j)
               /\ ~sameSettings(i, j) => (~last'.panic /\ Value(i)' = Value(i))
               /\ sameSettings(i, j) =>
                     /\ last'.err = "nil"
                     /\ ~last'.panic
                     /\ Contents(Value(i)'.storage)
                            = Contents(union(Value(i), AsOther(j), FALSE).h.storage) ]_vars

(***************************************************************************)
(* C8  Union does not panic                                                *)
(***************************************************************************)
\* C8: h.Union(other) completes without a panic (no out-of-range register or
\* word access) for every pair of initialized counters in every combination
\* of tiers, also when their log2m or regwidth differ.
C8_UnionNoPanic == last.op = "Union" => ~last.panic

(***************************************************************************)
(* C2  Lossless union                                                      *)
(***************************************************************************)
\* the counter after the AddRaw calls of adds, in order: [panic, h]
RECURSIVE AddAll(_, _)
AddAll(r, adds) ==
    IF adds = <<>> \/ r.panic THEN r
    ELSE AddAll(AddRaw(r.h, Head(adds)), Tail(adds))

\* counter h is in the tier and has the contents the calls f ended with
Holds(h, f) == ~f.panic /\ Contents(h.storage) = Contents(f.h.storage)

\* a fresh counter with the settings of counter i
Fresh(i) == [panic |-> FALSE, h |-> [settings |-> hll[i].settings, storage |-> NilStorage]]

\* C2: for counters A and B with identical Settings, each built from NewHll by
\* AddRaw only, A.Union(B) leaves A in the tier and with the contents of a
\* fresh counter of these Settings into which every hash added to A and then
\* every hash added to B was inserted with AddRaw.
C2_LosslessUnion ==
    \A i \in Ctr :
        hist[i].how = "united" =>
            Holds(Value(i), AddAll(Fresh(i), hist[i].adds))

(***************************************************************************)
(* C9  The cutoff byte                                                     *)
(***************************************************************************)
\* the largest power of two that is at most t, for 1 <= t <= 131072
FloorPowerOfTwo(t) == 2 ^ SetMax({e \in 0 .. (maximumExpthreshParam - 1) : 2 ^ e <= t})

\* the threshold the claim expects back: 0 for 0, auto for auto, and the
\* largest power of two <= t for a threshold t
ExpectedThreshold(t) == IF t <= 0 THEN t ELSE FloorPowerOfTwo(t)

\* C9: reading back the bytes of a counter gives the same SparseEnabled flag
\* and ExplicitThreshold 0 for 0, auto for auto, and the largest power of two
\* <= t for a threshold t; hence the same Settings whenever the threshold is
\* auto, 0 or a power of two.
C9_CutoffByte ==
    (last.op = "FromBytes" /\ last.other # last.ctr)
    => LET s == toExternal(hll[last.other].settings)
           d == toExternal(hll[last.ctr].settings)
       IN  /\ last.err = "nil"
           /\ d.SparseEnabled = s.SparseEnabled
           /\ d.ExplicitThreshold = ExpectedThreshold(s.ExplicitThreshold)
           /\ ExpectedThreshold(s.ExplicitThreshold) = s.ExplicitThreshold => d = s

(***************************************************************************)
(* C10  Dense union is commutative                                         *)
(***************************************************************************)
\* two unions ended without a panic and with the same dense words
SameWords(ab, ba) == ~ab.panic /\ ~ba.panic /\ ab.h.storage.words = ba.h.storage.words

\* C10: for dense counters A and B with the same settings, each built by
\* AddRaw, A.Union(B) and B.Union(A) on copies leave the receivers with
\* bitwise identical dense register words.
C10_DenseUnionCommutes ==
    ( /\ \A i \in Ctr : Value(i).storage.type = "dense" /\ hist[i].how = "built"
      /\ sameSettings(1, 2) )
    => SameWords(union(Value(1), AsOther(2), FALSE), union(Value(2), AsOther(1), FALSE))

(***************************************************************************)
(* Defaults                                                                *)
(***************************************************************************)
\* the Settings of the installed defaults (the zero Settings when none is)
InstalledSettings(p) ==
    IF p.defaultSettings = NilPointer THEN ZeroSettings ELSE p.defaultSettings[1]

\* every goroutine that has entered Defaults was called with settings
AllCalledWith(settings) == \A g \in Goroutines : gor[g].pc # "idle" => gor[g].arg = settings

\* C19: when goroutines call Defaults concurrently with equal, valid
\* Settings, starting with no defaults and an empty cache, every call that
\* has returned has returned nil, whatever the interleaving of the look-up,
\* insert and install steps, and the installed defaults are those Settings
C19_ConcurrentDefaults ==
    \A settings \in DefaultsPool :
        (validate(settings) = "nil" /\ AllCalledWith(settings))
        => \A g \in Goroutines :
               gor[g].pc = "returned"
               => gor[g].err = "nil" /\ InstalledSettings(pkg) = settings

\* C20: called one after the other, the first Defaults with valid Settings
\* installs them and returns nil; a later call returns nil iff its Settings
\* are valid and equal to the installed ones; invalid Settings get the
\* validation error, other valid Settings the already-installed error, and
\* a failed call leaves the installed defaults as they were
C20_InstallOnce ==
    [][\A settings \in DefaultsPool :
          (gor'[1].arg = settings /\ gor'[1].left = gor[1].left - 1)
          => IF validate(settings) # "nil"
             THEN gor'[1].err = validate(settings) /\ pkg'.defaultSettings = pkg.defaultSettings
             ELSE IF pkg.defaultSettings = NilPointer
             THEN gor'[1].err = "nil" /\ InstalledSettings(pkg') = settings
             ELSE /\ pkg'.defaultSettings = pkg.defaultSettings
                  /\ gor'[1].err = IF InstalledSettings(pkg) = settings THEN "nil"
                                   ELSE "different default settings have already been installed"
      ]_vars

\* a later call with the installed Settings has returned nil, after a call
\* with other Settings had failed
C20_Witness ==
    /\ gor[1].left <= MaxInstalls - 3
    /\ gor[1].err = "nil"
    /\ InstalledSettings(pkg) = gor[1].arg
    /\ Cardinality(pkg.settingsCache) >= 2

(***************************************************************************)
(* C11  The empty counter is the identity of Union                         *)
(***************************************************************************)
\* counters i and j have the same Settings
EqualSettings(i, j) == toExternal(hll[i].settings) = toExternal(hll[j].settings)

\* C11: for a counter A in any tier and an empty counter E with the same
\* Settings, A.Union(E) leaves A.ToBytes() unchanged, and E.Union(A) makes
\* E.ToBytes() byte for byte equal to A.ToBytes()
C11_UnionIdentity ==
    [][\A i \in Ctr : \A j \in Ctr \ {i} :
          (last'.op = "Union" /\ last'.ctr = i /\ last'.other = j /\ EqualSettings(i, j))
          => /\ Value(j).storage.type = "nil"
                => ~last'.panic /\ ToBytes(Value(i)') = ToBytes(Value(i))
             /\ Value(i).storage.type = "nil"
                => ~last'.panic /\ ToBytes(Value(i)') = ToBytes(Value(j))
      ]_vars

\* an empty counter has taken the contents of a sparse counter with its Settings
C11_Witness ==
    /\ last.op = "Union"
    /\ last.pre = "nil"
    /\ ~last.panic
    /\ EqualSettings(last.ctr, last.other)
    /\ Value(last.ctr).storage.type = "sparse"
    /\ ToBytes(Value(last.ctr)) = ToBytes(Value(last.other))

(***************************************************************************)
(* C12  AddRaw ignores zero                                                *)
(***************************************************************************)
\* the value the last AddRaw on counter 1 was given
LastAdd == hist[1].adds[Len(hist[1].adds)]

\* C12: AddRaw(0) leaves Cardinality() and ToBytes() unchanged for a counter in
\* any state (empty, explicit, sparse or dense), and allocates no storage on an
\* empty counter
C12_ZeroIgnored ==
    [][hist'[1].adds = Append(hist[1].adds, {})
       => /\ ~last'.panic
          /\ hll' = hll
          /\ heap' = heap
          /\ HllCardinality(Value(1)') = HllCardinality(Value(1))
          /\ ToBytes(Value(1)') = ToBytes(Value(1))
      ]_vars

\* zero was added to a dense counter that holds a register
C12_Witness ==
    /\ hist[1].adds # <<>>
    /\ LastAdd = {}
    /\ Value(1).storage.type = "dense"
    /\ HllCardinality(Value(1)).n > 0

(***************************************************************************)
(* C13  Insertion is idempotent                                            *)
(***************************************************************************)
\* the counter before the last n calls of AddRaw on counter 1: [panic, h]
Before(n) == AddAll(Fresh(1), SubSeq(hist[1].adds, 1, Len(hist[1].adds) - n))

\* C13: after C.AddRaw(h), a second C.AddRaw(h) changes neither the storage of
\* C nor C.Cardinality(), in any tier and also when the first AddRaw
\* triggered a promotion
C13_Idempotent ==
    [][(hist[1].adds # <<>> /\ hist'[1].adds = Append(hist[1].adds, LastAdd))
       => /\ ~last'.panic
          /\ hll' = hll
          /\ heap' = heap
          /\ HllCardinality(Value(1)') = HllCardinality(Value(1))
      ]_vars

\* a value was added twice, and its first AddRaw promoted the counter out of
\* the explicit tier
C13_Witness ==
    /\ Len(hist[1].adds) >= 2
    /\ LastAdd # {}
    /\ hist[1].adds[Len(hist[1].adds) - 1] = LastAdd
    /\ Before(2).h.storage.type = "explicit"
    /\ Value(1).storage.type \in {"sparse", "dense"}

(***************************************************************************)
(* C14  Cardinality is monotonic under AddRaw                              *)
(***************************************************************************)
\* C14: for every sequence of AddRaw calls on a counter, Cardinality() after
\* each call is greater than or equal to Cardinality() before it, also across
\* the promotions explicit -> sparse or dense and sparse -> dense
C14_CardinalityMonotonic ==
    [][(Len(hist'[1].adds) = Len(hist[1].adds) + 1 /\ ~last'.panic)
       => /\ ~HllCardinality(Value(1)').panic
          /\ HllCardinality(Value(1)').n >= HllCardinality(Value(1)).n
      ]_vars

(***************************************************************************)
(* C15  The explicit tier counts exactly                                   *)
(***************************************************************************)
\* the distinct nonzero values added to counter 1
Added == {hist[1].adds[k] : k \in DOMAIN hist[1].adds} \ {{}}

\* C15: while the storage of a counter is explicit, Cardinality() is the
\* number of distinct nonzero 64-bit values added to it, whatever the values;
\* an empty counter has cardinality 0
C15_ExplicitExact ==
    /\ Value(1).storage.type = "explicit"
       => HllCardinality(Value(1)) = [panic |-> FALSE, n |-> Cardinality(Added)]
    /\ Value(1).storage.type = "nil" => HllCardinality(Value(1)) = [panic |-> FALSE, n |-> 0]

\* an explicit counter holds two values, one of them with the top bit set,
\* after four calls
C15_Witness ==
    /\ Value(1).storage.type = "explicit"
    /\ Len(hist[1].adds) = 4
    /\ HllCardinality(Value(1)).n = 2
    /\ \E v \in Added : 63 \in v

(***************************************************************************)
(* C16  A promotion preserves the registers                                *)
(***************************************************************************)
\* a fresh counter with the log2m and regwidth of counter 1 whose first
\* storage is of the register tier given
Direct(tier) ==
    [panic |-> FALSE,
     h |-> [settings |-> toInternal([toExternal(hll[1].settings) EXCEPT
                                        !.ExplicitThreshold = 0,
                                        !.SparseEnabled = (tier = "sparse")]),
            storage |-> NilStorage]]

\* counter h has the tier, the register values and the cardinality the calls
\* d ended with
SameRegisters(h, d) ==
    /\ ~d.panic
    /\ d.h.storage.type = h.storage.type
    /\ \A regnum \in RegisterNumbers(h) \cup RegisterNumbers(d.h) :
           registerValue(h, regnum) = registerValue(d.h, regnum)
    /\ HllCardinality(h) = HllCardinality(d.h)

\* C16: a counter that received its hashes while passing through the tiers
\* explicit -> sparse -> dense has the per-register values, and the
\* cardinality, of a counter with the same log2m and regwidth into which the
\* same hashes were inserted directly in the final tier
C16_UpgradePreserves ==
    IsRegisterTier(Value(1))
    => SameRegisters(Value(1), AddAll(Direct(Value(1).storage.type), hist[1].adds))

\* the counter was explicit, then sparse, and is dense with a register set
C16_Witness ==
    /\ Value(1).storage.type = "dense"
    /\ \E a \in 1 .. Len(hist[1].adds) : Before(a).h.storage.type = "explicit"
    /\ \E b \in 1 .. Len(hist[1].adds) : Before(b).h.storage.type = "sparse"
    /\ \E regnum \in RegisterNumbers(Value(1)) : registerValue(Value(1), regnum) > 0

(***************************************************************************)
(* C17  The register value of a hash                                       *)
(***************************************************************************)
\* the value of register regnum of the counter r.h, which may be in no
\* register tier yet
HeldValue(r, regnum) == IF IsRegisterTier(r.h) THEN registerValue(r.h, regnum) ELSE 0

\* the registers that counter h stores
Held(h) ==
    IF h.storage.type = "sparse" THEN DOMAIN h.storage.map
    ELSE 0 .. ((2 ^ h.settings.log2m) - 1)

\* AddRaw(v) took the counter pre to h by raising register i to p, when p is
\* the larger value, and touched no other register
Raised(h, pre, i, p) ==
    /\ IsRegisterTier(h)
    /\ registerValue(h, i) = (IF p > HeldValue(pre, i) THEN p ELSE HeldValue(pre, i))
    /\ \A k \in (Held(h) \cup (IF IsRegisterTier(pre.h) THEN Held(pre.h) ELSE {})) \ {i} :
           registerValue(h, k) = HeldValue(pre, k)

\* 1 + trailing_zeros(v >> log2m)
Rank(h, v) == 1 + TrailingZeros64(Shr64(v, h.settings.log2m))

\* C17: for every regwidth in 1..8, log2m in 4..31 and hash v with
\* v >> log2m # 0, the register value AddRaw derives is
\* min(1 + trailing_zeros(v >> log2m), 2^regwidth - 1), which lies in
\* 1 .. max_reg_value, and the register it is offered to is v & (m - 1)
C17_RegisterSaturation ==
    (hist[1].adds # <<>> /\ Shr64(LastAdd, hll[1].settings.log2m) # {})
    => /\ ~last.panic
       /\ Raised(Value(1), Before(1),
                 IntOf(LastAdd \cap (0 .. (hll[1].settings.log2m - 1))),
                 IF Rank(Value(1), LastAdd) < maxRegisterValue(hll[1].settings)
                 THEN Rank(Value(1), LastAdd) ELSE maxRegisterValue(hll[1].settings))

\* the first hash of a counter had more trailing zeros than the register can
\* count, and the register holds the largest value
C17_Witness ==
    /\ Len(hist[1].adds) = 1
    /\ hll[1].settings.regwidth > 1
    /\ Shr64(LastAdd, hll[1].settings.log2m) # {}
    /\ Rank(Value(1), LastAdd) > maxRegisterValue(hll[1].settings)
    /\ \E k \in Held(Value(1)) :
          registerValue(Value(1), k) = maxRegisterValue(hll[1].settings)

(***************************************************************************)
(* C18  The promotion path                                                 *)
(***************************************************************************)
\* the registers the hashes added to counter 1 have a value for
Entries ==
    {IntOf(v \cap (0 .. (hll[1].settings.log2m - 1))) :
        v \in {x \in Added : Shr64(x, hll[1].settings.log2m) # {}}}

\* the tier the promotion path prescribes for a counter of settings st that
\* received distinct nonzero values, which fill entries registers
PathTier(st, distinct, entries) ==
    IF distinct = 0 THEN "nil"
    ELSE IF distinct <= st.explicitThreshold THEN "explicit"
    ELSE IF st.sparseEnabled /\ entries <= st.sparseThreshold THEN "sparse"
    ELSE "dense"

\* C18: from an empty counter, the first AddRaw of a nonzero value selects
\* explicit storage iff explicit_threshold > 0, else sparse iff sparse is
\* enabled, else dense; the counter stays explicit while it holds at most
\* explicit_threshold distinct values; the AddRaw that brings it to
\* explicit_threshold + 1 distinct values moves it to a register tier (sparse
\* if enabled and within the sparse threshold, otherwise dense); a sparse
\* counter moves to dense exactly when its number of entries first exceeds
\* sparse_threshold
C18_PromotionPath ==
    /\ ~last.panic
    /\ Value(1).storage.type =
          PathTier(hll[1].settings, Cardinality(Added), Cardinality(Entries))

\* the last AddRaw brought an explicit counter to explicit_threshold + 1
\* distinct values and left it sparse
C18_Witness ==
    /\ hist[1].adds # <<>>
    /\ Before(1).h.storage.type = "explicit"
    /\ Cardinality(Added) = hll[1].settings.explicitThreshold + 1
    /\ Value(1).storage.type = "sparse"

(***************************************************************************)
(* C21  The zero value                                                     *)
(***************************************************************************)
IsZeroValue(i) == hll[i].settings = NilSettings

\* an empty counter carrying the installed Settings
InstalledHll == [settings |-> toInternal(InstalledSettings(pkg)), storage |-> NilStorage]

\* the call that op, i, j name, made on the empty counter e in place of the
\* zero value i, would have ended as r, and the call made ended so
AsOnEmpty(op, i, r) ==
    /\ ~last'.panic
    /\ last'.err = r.err
    /\ toExternal(hll'[i].settings) = InstalledSettings(pkg)
    /\ hll'[i].settings = r.h.settings
    /\ Contents(Value(i)'.storage) = Contents(r.h.storage)
    /\ op = "Cardinality" => HllCardinality(Value(i)') = [panic |-> FALSE, n |-> 0]
    /\ op = "ToBytes" => last'.bytes = ToBytes(InstalledHll).bytes

\* what the call that op, i, j name does to the empty counter e
OnEmpty(op, e, j) ==
    CASE op = "AddRaw" -> Returns(AddAll([panic |-> FALSE, h |-> e], hist'[last'.ctr].adds))
      [] op = "Union" -> union(e, AsOther(j), FALSE)
      [] op = "StrictUnion" -> union(e, AsOther(j), TRUE)
      [] OTHER -> [err |-> "nil", panic |-> FALSE, h |-> e]

\* the call op of counter i with the zero value j as the other operand ends
\* as it does with an empty counter: i keeps its contents, j stays the zero
\* value, and StrictUnion compares with the installed Settings
WithEmptyOther(op, i, j) ==
    /\ ~last'.panic
    /\ UNCHANGED <<hll, heap>>
    /\ last'.err = union(Value(i), InstalledHll, op = "StrictUnion").err

Panicked == last'.panic /\ last'.err = ErrNoDefaults /\ UNCHANGED <<hll, heap>>

\* C21: every operation (AddRaw, Cardinality, Union, StrictUnion, ToBytes,
\* Clear, Settings) on a zero-value counter panics with "attempted operation
\* on empty Hll without default settings" when no defaults are installed,
\* also when the zero value is the other operand of a union; when defaults
\* are installed the zero-value counter behaves as an empty counter carrying
\* exactly the installed Settings
C21_ZeroValue ==
    [][ \A op \in {"AddRaw", "Cardinality", "Union", "StrictUnion", "ToBytes", "Clear",
                    "Settings"} :
        \A i \in Ctr : \A j \in (Ctr \cup {0}) \ {i} :
          (last' # last /\ last'.op = op /\ last'.ctr = i /\ last'.other = j)
          => /\ IsZeroValue(i)
                => IF getDefaults(pkg) = NilPointer THEN Panicked
                   ELSE IF j # 0 /\ IsZeroValue(j)
                   THEN AsOnEmpty(op, i, [err |-> "nil", panic |-> FALSE, h |-> InstalledHll])
                   ELSE AsOnEmpty(op, i, OnEmpty(op, InstalledHll, j))
             /\ (j # 0 /\ ~IsZeroValue(i) /\ IsZeroValue(j))
                => IF getDefaults(pkg) = NilPointer THEN Panicked
                   ELSE WithEmptyOther(op, i, j)
      ]_vars

\* defaults are installed, and a zero-value counter has been used by AddRaw
\* and united with the other zero-value counter
C21_Witness ==
    /\ getDefaults(pkg) # NilPointer
    /\ ~last.panic
    /\ last.op = "Union"
    /\ IsZeroValue(last.other)
    /\ hist[last.ctr].adds # <<>>
    /\ Value(last.ctr).storage.type # "nil"
    /\ toExternal(hll[last.ctr].settings) = InstalledSettings(pkg)

(***************************************************************************)
(* C22  FromBytes rejects malformed input                                  *)
(***************************************************************************)
\* what the header of b says
VersionOf(b) == b[1] \div 16

TypeOf(b) == b[1] % 16

Log2mOf(b) == b[2] % 32

RegwidthOf(b) == (b[2] \div 32) + 1

\* the exponent field of the cutoff byte: 1 .. 62 stand for 2^(field - 1)
ThresholdFieldOf(b) == b[3] % 64

\* the header of b is one FromBytes has to refuse
BadHeader(b) ==
    \/ VersionOf(b) # 1
    \/ TypeOf(b) \notin 1 .. 4
    \/ Log2mOf(b) < 4
    \/ (ThresholdFieldOf(b) # 63 /\ ThresholdFieldOf(b) - 1 > 17)

\* the payload of b, whose header is good, has a length FromBytes has to refuse
BadPayload(b) ==
    \/ TypeOf(b) = 2 /\ (Len(b) - 3) % 8 # 0
    \/ TypeOf(b) = 4
          /\ 8 * (Len(b) - 3) \notin
                 ((2 ^ Log2mOf(b)) * RegwidthOf(b)) .. (((2 ^ Log2mOf(b)) * RegwidthOf(b)) + 7)

\* the FromBytes that was given b returned an error and the zero value
Rejected(j) ==
    /\ last.err # "nil"
    /\ hll[j].settings = NilSettings
    /\ Value(j).storage.type = "nil"

\* C22: FromBytes returns an error and the zero-value counter when the input
\* has fewer than 3 bytes (ErrInsufficientBytes), the version nibble is not
\* 1, the type nibble is outside 1..4, the header decodes to Settings that
\* fail validation (log2m < 4 or a decoded explicit threshold above 131072),
\* an explicit payload's length is not a multiple of 8
\* (ErrInsufficientBytes), or a dense payload's length differs from
\* ceil(m * regwidth / 8) (ErrInsufficientBytes)
C22_RejectsMalformed ==
    last.op = "FromBytes"
    => IF Len(last.bytes) < 3
       THEN Rejected(last.ctr) /\ last.err = "ErrInsufficientBytes"
       ELSE IF BadHeader(last.bytes) THEN Rejected(last.ctr)
       ELSE BadPayload(last.bytes)
            => Rejected(last.ctr) /\ last.err = "ErrInsufficientBytes"

\* FromBytes was given an explicit counter's bytes cut short
C22_Witness ==
    /\ last.op = "FromBytes"
    /\ Len(last.bytes) > 3
    /\ ~BadHeader(last.bytes)
    /\ TypeOf(last.bytes) = 2
    /\ BadPayload(last.bytes)
    /\ Rejected(last.ctr)

(***************************************************************************)
(* C23  Deterministic serialization                                        *)
(***************************************************************************)
\* the k-th (from 0) 8-byte big-endian word of the payload of bytes b
WordOf(b, k) == Uint64At(b, 3 + (8 * k))

\* the k-th (from 0) sparse entry of the payload of bytes b: [reg, value]
EntryOf(b, st, k) ==
    LET e == readBits(SubSeq(b, 4, Len(b)), k * (st.log2m + st.regwidth),
                      st.log2m + st.regwidth).value
    IN  [reg |-> IntOf(Shr64(e, st.regwidth)),
         value |-> IntOf(e \cap (0 .. (st.regwidth - 1)))]

\* the bytes b of the explicit counter h are its values, ascending as int64
ExplicitInOrder(h, b) ==
    /\ Len(b) = 3 + (8 * Cardinality(h.storage.set))
    /\ {WordOf(b, k) : k \in 0 .. (Cardinality(h.storage.set) - 1)} = h.storage.set
    /\ \A k \in 1 .. (Cardinality(h.storage.set) - 1) : Slt64(WordOf(b, k - 1), WordOf(b, k))

\* the bytes b of the sparse counter h are its entries, ascending by register
SparseInOrder(h, b) ==
    /\ {EntryOf(b, h.settings, k) : k \in 0 .. (Cardinality(DOMAIN h.storage.map) - 1)}
          = {[reg |-> x, value |-> h.storage.map[x]] : x \in DOMAIN h.storage.map}
    /\ \A k \in 1 .. (Cardinality(DOMAIN h.storage.map) - 1) :
          EntryOf(b, h.settings, k - 1).reg < EntryOf(b, h.settings, k).reg

\* ToBytes of counter h ended as b, with the payload in the canonical order
InOrder(h, b) ==
    /\ ~b.panic
    /\ h.storage.type = "explicit" => ExplicitInOrder(h, b.bytes)
    /\ h.storage.type = "sparse" => SparseInOrder(h, b.bytes)

RECURSIVE Reverse(_)
Reverse(s) == IF s = <<>> THEN <<>> ELSE Append(Reverse(Tail(s)), Head(s))

\* the counter r.h, with the contents of h, has the bytes b of h
SameBytes(h, r, b) ==
    (~r.panic /\ Contents(r.h.storage) = Contents(h.storage)) => ToBytes(r.h) = b

\* C23: ToBytes emits explicit values as 8-byte big-endian words in ascending
\* order of their signed 64-bit interpretation (values with the top bit set
\* first) and sparse entries in ascending register index, so that two
\* counters with equal settings and equal stored contents produce identical
\* bytes regardless of the order in which the values were added
C23_Deterministic ==
    /\ InOrder(Value(1), ToBytes(Value(1)))
    /\ SameBytes(Value(1), AddAll(Fresh(1), Reverse(hist[1].adds)), ToBytes(Value(1)))

\* an explicit counter holds a value with the top bit set, added after one
\* without
C23_Witness ==
    /\ Value(1).storage.type = "explicit"
    /\ Len(hist[1].adds) = 2
    /\ 63 \notin hist[1].adds[1] /\ 63 \in hist[1].adds[2]
    /\ Cardinality(Value(1).storage.set) = 2
    /\ ~ToBytes(Value(1)).panic

(***************************************************************************)
(* C24  The wire envelope                                                  *)
(***************************************************************************)
\* the number of payload bytes of a counter
PayloadSize(h) ==
    CASE h.storage.type = "explicit" -> 8 * Cardinality(h.storage.set)
      [] h.storage.type = "sparse" ->
            ((((h.settings.log2m + h.settings.regwidth) * Cardinality(DOMAIN h.storage.map)) + 7)
                \div 8)
      [] h.storage.type = "dense" -> ((((2 ^ h.settings.log2m) * h.settings.regwidth) + 7) \div 8)
      [] OTHER -> 0

TypeCode(h) ==
    CASE h.storage.type = "explicit" -> 2
      [] h.storage.type = "sparse" -> 3
      [] h.storage.type = "dense" -> 4
      [] OTHER -> 1

\* ToBytes of counter h ended as b: the header and the number of bytes
Envelope(h, b) ==
    /\ ~b.panic
    /\ Len(b.bytes) = 3 + PayloadSize(h)
    /\ b.bytes[1] = 16 + TypeCode(h)
    /\ b.bytes[2] = ((h.settings.regwidth - 1) * 32) + h.settings.log2m
    /\ b.bytes[3] = packCutoffByte(h.settings)

\* C24: ToBytes always emits a 3-byte header with byte 0 = 0x10 | type
\* (1 empty, 2 explicit, 3 sparse, 4 dense), byte 1 =
\* ((regwidth - 1) << 5) | log2m and byte 2 = the cutoff byte, followed by a
\* payload of exactly 0 bytes (empty), 8 * size bytes (explicit),
\* ceil((log2m + regwidth) * size / 8) bytes (sparse) or ceil(m * regwidth / 8)
\* bytes (dense); an empty counter with Log2m = 31, Regwidth = 6, auto
\* explicit threshold and sparse enabled serializes to 11 BF 7F
C24_Envelope ==
    last.op = "ToBytes"
    => /\ Envelope(Value(last.ctr), [panic |-> last.panic, bytes |-> last.bytes])
       /\ (toExternal(hll[last.ctr].settings) = ExampleSettings
             /\ Value(last.ctr).storage.type = "nil")
          => last.bytes = <<17, 191, 127>>

(***************************************************************************)
(* C25  The streaming union of dense storages                              *)
(***************************************************************************)
\* the larger of two register values
Larger(a, b) == IF a > b THEN a ELSE b

\* C25: for two dense storages with the same settings, for every valid
\* (log2m, regwidth) pair (also with regwidth > log2m and with registers that
\* straddle 64-bit words), after denseStorage.union every register i of the
\* receiver equals max(old receiver[i], other[i]), with the values as read by
\* get, and other is unchanged
C25_DenseUnionMax ==
    [][ \A i \in Ctr : \A j \in Ctr \ {i} :
          (/\ last'.op = "Union" /\ last'.ctr = i /\ last'.other = j /\ last' # last
           /\ sameSettings(i, j)
           /\ Value(i).storage.type = "dense" /\ Value(j).storage.type = "dense")
          => /\ ~last'.panic
             /\ Value(j)' = Value(j)
             /\ Value(i)'.storage.type = "dense"
             /\ \A regnum \in 0 .. ((2 ^ hll[i].settings.log2m) - 1) :
                   registerValue(Value(i)', regnum)
                      = Larger(registerValue(Value(i), regnum), registerValue(Value(j), regnum))
      ]_vars

(***************************************************************************)
(* C26  The dense indicator                                                *)
(***************************************************************************)
\* the registers of the dense counter h that get reads as nonzero
NonZero(h) == {i \in 0 .. ((2 ^ h.settings.log2m) - 1) : registerValue(h, i) # 0}

\* the sparse map that holds the register values of the dense counter h
AsSparseMap(h) == [i \in NonZero(h) |-> registerValue(h, i)]

\* the indicator d of the dense counter h counts the zero registers and is
\* the indicator e of the sparse storage with the same register values
Agrees(h, d, e) ==
    /\ ~d.panic
    /\ d.numberOfZeros = (2 ^ h.settings.log2m) - Cardinality(NonZero(h))
    /\ d.sum = e.sum
    /\ d.numberOfZeros = e.numberOfZeros

\* C26: for every valid (log2m, regwidth) pair (also with regwidth > log2m)
\* and every dense storage content, denseStorage.indicator returns V = the
\* number of registers i with get(i) = 0 and sum = the sum over all m
\* registers of 2^(-get(i)); it returns the same (sum, V) as the sparse
\* indicator for a sparse storage holding the same register values
C26_IndicatorAgrees ==
    Value(1).storage.type = "dense"
    => Agrees(Value(1), denseIndicator(Value(1).storage, Value(1).settings),
              sparseIndicator([makeSparse EXCEPT !.map = AsSparseMap(Value(1))],
                              Value(1).settings))

(***************************************************************************)
(* C27  Dense registers are written and read one by one                    *)
(***************************************************************************)
\* setIfGreater(regnum, value) on the dense counter h ended as r: register
\* regnum holds the larger value and no other register has changed
SetsOne(h, regnum, value, r) ==
    /\ ~r.panic
    /\ Len(r.s.words) = Len(h.storage.words)
    /\ \A j \in 0 .. ((2 ^ h.settings.log2m) - 1) :
          denseGet(r.s.words, j, h.settings.regwidth)
             = [panic |-> FALSE,
                v |-> IF j = regnum /\ value > registerValue(h, j) THEN value
                      ELSE registerValue(h, j)]

\* C27: on a dense storage, setIfGreater(i, v) with v <= max_reg_value makes
\* get(i) equal max(old get(i), v) and leaves get(j) unchanged for every
\* register j # i, also when register i lies in two consecutive 64-bit words
C27_DenseSetGet ==
    Value(1).storage.type = "dense"
    => \A regnum \in DenseRegisters : \A value \in DenseValues \cup {0} :
          SetsOne(Value(1), regnum, value,
                  denseSetIfGreater(Value(1).storage, Value(1).settings, regnum, value))

\* a register of width 7 that lies in two words holds a value with bits in
\* both, and so do the registers before and after it
C27_Witness ==
    /\ Value(1).storage.type = "dense"
    /\ hll[1].settings.regwidth = 7
    /\ last.op = "setIfGreater"
    /\ registerValue(Value(1), 9) = 127
    /\ registerValue(Value(1), 8) # 0
    /\ registerValue(Value(1), 10) # 0

(***************************************************************************)
(* C28  Sparse storage is well-formed                                      *)
(***************************************************************************)
WellFormedSparse(h) ==
    \A k \in DOMAIN h.storage.map :
        /\ k \in 0 .. ((2 ^ h.settings.log2m) - 1)
        /\ h.storage.map[k] \in 1 .. maxRegisterValue(h.settings)

\* C28: every sparse counter, whether produced by AddRaw, Union, promotion or
\* FromBytes of bytes written by ToBytes, has all keys in [0, m) and all
\* stored values in [1, max_reg_value]; no entry with value 0 is ever stored
C28_SparseWellFormed ==
    \A i \in Ctr : Value(i).storage.type = "sparse" => WellFormedSparse(Value(i))

(***************************************************************************)
(* C29  readBits is the dual of writeBits                                  *)
(***************************************************************************)
\* writeBits(b, addr, value, nBits) ended as w: the field reads back as the
\* nBits low bits of value and no bit outside the field has changed
Dual(b, addr, value, nBits, w) ==
    /\ ~w.panic
    /\ Len(w.bytes) = Len(b)
    /\ readBits(w.bytes, addr, nBits) = [readBits(w.bytes, addr, nBits) EXCEPT
                                            !.panic = FALSE,
                                            !.value = value \cap (0 .. (nBits - 1))]
    /\ \A p \in (0 .. ((8 * Len(b)) - 1)) \ (addr .. (addr + nBits - 1)) :
          BitAt(w.bytes, p) = BitAt(b, p)

\* C29: for nBits in 1..64 and any bit address addr (bit 0 is the most
\* significant bit of byte 0), after writeBits(buf, addr, value, nBits) into
\* zeroed target bits readBits(buf, addr, nBits) returns the nBits low bits of
\* value, and writeBits changes no bit outside [addr, addr + nBits), so that
\* fields packed back to back at the addresses i * nBits all read back
\* independently
C29_BitsDual ==
    /\ ~last.panic
    /\ \A k \in DOMAIN hist[1].adds :
          readBits(last.bytes, hist[1].adds[k].addr, hist[1].adds[k].nBits).value
             = hist[1].adds[k].value \cap (0 .. (hist[1].adds[k].nBits - 1))
    /\ last.op = "writeBits"
       => Dual(last.pre, hist[1].adds[Len(hist[1].adds)].addr,
               hist[1].adds[Len(hist[1].adds)].value,
               hist[1].adds[Len(hist[1].adds)].nBits,
               [panic |-> last.panic, bytes |-> last.bytes])

\* three fields of 13 bits were written back to back
C29_Witness ==
    /\ Len(hist[1].adds) = 3
    /\ \A k \in 1 .. 3 : hist[1].adds[k].nBits = 13 /\ hist[1].adds[k].value = Bits64
    /\ {hist[1].adds[k].addr : k \in 1 .. 3} = {0, 13, 26}
    /\ \A p \in 0 .. 38 : BitAt(last.bytes, p)

(***************************************************************************)
(* C30  Tier order                                                         *)
(***************************************************************************)
\* Empty < Explicit < Sparse < Dense
TierRank(h) ==
    CASE h.storage.type = "explicit" -> 1
      [] h.storage.type = "sparse" -> 2
      [] h.storage.type = "dense" -> 3
      [] OTHER -> 0

\* counter h is Empty: cardinality 0 and a serialization of 3 bytes
IsEmptyCounter(h) ==
    /\ h.storage.type = "nil"
    /\ HllCardinality(h) = [panic |-> FALSE, n |-> 0]
    /\ ~ToBytes(h).panic
    /\ Len(ToBytes(h).bytes) = 3

\* C30: with the tiers ordered Empty < Explicit < Sparse < Dense, the storage
\* tier of a counter never decreases under AddRaw, Union or StrictUnion; Clear
\* is the only operation that lowers it, and Clear always leaves the counter
\* Empty (cardinality 0, serialization of 3 bytes) with its Settings unchanged
C30_TierOrder ==
    [][\A i \in Ctr :
          /\ (last' # last /\ last'.op \in {"AddRaw", "Union", "StrictUnion"})
             => TierRank(Value(i)') >= TierRank(Value(i))
          /\ (last' # last /\ last'.op = "Clear" /\ last'.ctr = i)
             => /\ ~last'.panic
                /\ IsEmptyCounter(Value(i)')
                /\ hll'[i].settings = hll[i].settings]_vars

\* a dense counter was cleared
C30_Witness ==
    /\ last.op = "Clear"
    /\ last.pre = "dense"
    /\ ~last.panic
    /\ IsEmptyCounter(Value(last.ctr))

====
